---- MODULE Spec2Model ----
(***************************************************************************)
(* A model of the lite-rpc core: the block multiplexer, the slot clock,    *)
(* the transaction batch forwarder and the QUIC proxy connection manager.  *)
(* Each component has its own variables, initial condition and next-state  *)
(* relation; the components share no state, so each is checked under its   *)
(* own specification (SpecMux, SpecClock, ...), with the other components  *)
(* held in their idle state.                                               *)
(***************************************************************************)
EXTENDS Integers, Sequences, FiniteSets, TLC

Min(a, b) == IF a <= b THEN a ELSE b

Max(a, b) == IF a >= b THEN a ELSE b

Range(f) == {f[i] : i \in DOMAIN f}

(***************************************************************************)
(* STATE                                                                   *)
(***************************************************************************)

\* Block multiplexer
VARIABLES
    script,            \* per source: the updates its stream yields, in order
    pos,               \* per source: how many of them the multiplexer has taken
    mux_current_slot,  \* create_multiplex's local current_slot
    block_sx,          \* the slots of the blocks sent on the output channel
    mux_input,         \* the updates taken so far, in arrival order
    receiver_count,    \* the live receivers of the output channel
    mux_panicked       \* the multiplexer task has ended in a panic

muxVars ==
    <<script, pos, mux_current_slot, block_sx, mux_input, receiver_count, mux_panicked>>

\* Slot clock
VARIABLES
    current_slot,    \* SlotClock.current_slot: last verified slot
    estimated_slot,  \* SlotClock.estimated_slot
    holders,         \* the tasks calling set_slot on this clock
    sc_pc,           \* per holder: "idle", or where it is inside set_slot:
                     \*   "loaded", "waiting", "stored" or "returning"
    sc_local,        \* per holder: the counters set_slot loaded on entry
    sc_recv,         \* per holder: how its await ended, and the slot received
    sc_calls,        \* set_slot calls started so far
    run_n,           \* the calls that ended by timeout since the last other call
    run_est0,        \* estimated_slot when that run of timeouts began
    sc_ret           \* per holder: what its last set_slot returned, -1 for none

clockVars == <<current_slot, estimated_slot, holders, sc_pc, sc_local, sc_recv,
               sc_calls, run_n, run_est0, sc_ret>>

\* Transaction batch forwarder
VARIABLES
    tx_channel,         \* the mpsc channel of TxInfo, by signature, oldest first
    tx_submits,         \* how many TxInfo have been put on tx_channel
    transaction_infos,  \* execute's batch under construction
    ledger_txs,         \* the signatures that have an entry in the tx store
    tpu_broadcasts,     \* the signatures send_transaction accepted, in order
    notifications,      \* the TxNotificationMsg lists sent to the notifier
    ledger_meta,        \* the TxMeta stored for each signature of ledger_txs
    tpu_sends           \* the send_transaction calls made: signature and outcome

txVars == <<tx_channel, tx_submits, transaction_infos, ledger_txs,
            tpu_broadcasts, notifications, ledger_meta, tpu_sends>>

\* QUIC proxy connection manager and the broadcast channel that feeds it
VARIABLES
    bc_log,                 \* every transaction the broadcast channel accepted
    current_tpu_nodes,      \* the manager's Vec<TpuNode>
    simple_thread_started,  \* the manager's AtomicBool
    callers,                \* the tasks calling update_connection
    bc_capacity,            \* the capacity the broadcast channel was created with
    connection_parameters,  \* the QuicConnectionParameters given to update_connection
    uc_pc,                  \* per caller: "idle", "check", "start", "subscribe" or "spawn"
    uc_arg,                 \* per caller: connections_to_keep of its call
    uc_calls,               \* update_connection calls started so far
    last_desired,           \* connections_to_keep of the last completed call
    w_pc,                   \* per worker: "none", "subscribed", "recv", "drain",
                            \*   "read", "send", "returned" or "panicked"
    w_next,                 \* per worker: its receiver's position in bc_log
    w_txs,                  \* per worker: the batch txs
    w_i,                    \* per worker: the try_recv loop's counter
    w_fanout,               \* per worker: tpu_fanout_nodes of the batch
    w_node,                 \* per worker: index of the node being sent to
    w_chunk,                \* per worker: index of the chunk being sent
    w_sent,                 \* per worker: the requests sent for the batch
    w_expect,               \* per worker: see WorkerRecv
    delivered               \* per identity: the transactions the proxy got for it

\* What the manager is set up with.
proxySetup == <<callers, bc_capacity, connection_parameters>>

proxyVars == <<bc_log, current_tpu_nodes, simple_thread_started, proxySetup, uc_pc,
               uc_arg, uc_calls, last_desired, w_pc, w_next, w_txs, w_i,
               w_fanout, w_node, w_chunk, w_sent, w_expect, delivered>>

\* Auto-reconnecting QUIC connection and the QUIC send attempt
VARIABLES
    ar_current,       \* AutoReconnect.current: 0 for None, else a connection
    ar_made,          \* connections created so far; they are 1..ar_made
    ar_closed,        \* the connections whose close reason is set
    reconnect_count,  \* AutoReconnect.reconnect_count
    ar_writer,        \* the holder of current's write lock, or "none"
    senders,          \* the tasks calling send_uni
    su_pc,            \* per sender: "idle", "wait_write", "creating", "open",
                      \*   "write", "finish" or "panicked"
    su_conn,          \* per sender: the connection refresh returned
    su_how,           \* per sender: what its last refresh examined and did
    su_stalled,       \* per sender: the peer has stopped serving its stream
    su_result,        \* per sender: "none", "ok" or "err" of its last send_uni
    su_calls,         \* send_uni calls started so far
    sa_pc,            \* the send attempt's step
    sa_steps,         \* the steps the attempt took, with their outcomes
    sa_result,        \* the Result the attempt ended with
    sa_attempts       \* send attempts started so far

quicVars == <<ar_current, ar_made, ar_closed, reconnect_count, ar_writer,
              senders, su_pc, su_conn, su_how, su_stalled, su_result, su_calls,
              sa_pc, sa_steps, sa_result, sa_attempts>>

\* In-memory block store
VARIABLES
    block_storage,              \* InmemoryBlockStore.block_storage: slot -> block
    number_of_blocks_to_store,  \* InmemoryBlockStore.number_of_blocks_to_store
    bs_calls,                   \* store calls made so far
    bs_high,                    \* per slot: the highest commitment a call left stored
    bs_last                     \* the last call: its block and the block it found

blockVars == <<block_storage, number_of_blocks_to_store, bs_calls, bs_high, bs_last>>

\* Reconnecting source streams
VARIABLES
    gs_pc,        \* per source: "THROTTLED", "CONNECTING", "SUBSCRIBING",
                  \*   "STREAMING", or "YIELDED" with a message held out
    gs_wait,      \* per source: time left until throttle_barrier
    gs_since,     \* per source: time since its last connect attempt began,
                  \*   up to the throttle interval (none began at the start)
    gs_failed,    \* per source: it has been sent back to the head of 'main_loop
                  \*   and has not connected since
    gs_error      \* per source: the error that sent it back to the head of
                  \*   'main_loop, "none" once it connects again

sourceVars == <<gs_pc, gs_wait, gs_since, gs_failed, gs_error>>

\* The multiplexer's block filter and the commitments it emits
VARIABLES
    fl_current_slot,       \* create_multiplex: current_slot
    fl_emitted,            \* per slot: the commitment its block last went out
                           \*   with, "none" when none has gone out
    fl_update,             \* the message taken last
    fl_commitment_config,  \* create_multiplex: commitment_config
    fl_cmd                 \* the BlockCmd at hand, NoCmd between messages

filterVars == <<fl_current_slot, fl_emitted, fl_update, fl_commitment_config, fl_cmd>>

\* Parallel batch send over one connection
VARIABLES
    pb_call,     \* send_transaction_batch_parallel: "none", "running",
                 \*   "returned" or "panicked"
    pb_txs,      \* the batch txs
    pb_pc,       \* per transaction: "open", "write", "finish", "done", or
                 \*   "dropped" by a panic
    pb_stream,   \* per transaction: the stream opened for it, 0 for none
    pb_opened,   \* streams opened so far
    pb_live,     \* the streams opened and not yet finished or dropped
    pb_written   \* per transaction: the streams it was written to

parVars == <<pb_call, pb_txs, pb_pc, pb_stream, pb_opened, pb_live, pb_written>>

\* The lock of AutoReconnect.current and the readers of its statistics
VARIABLES
    ar_readers,  \* the tasks holding a read guard of current across an await
    cs_result    \* whether connection_stats was called, and the connection
                 \*   its last result described (none for "n/a")

lockVars == <<ar_readers, cs_result>>

\* Exit flag of the long-running tasks
VARIABLES
    exit_signal,   \* the AtomicBool the tasks were given
    ex_pc,         \* the forwarding loop: "check", "recv", "drain", "forward",
                   \*   "exited", "returned" or "panicked"
    ex_sender,     \* the broadcast channel still has a sender
    ex_queue,      \* transactions waiting on the loop's receiver
    ex_txs,        \* transactions in the batch txs
    ex_i,          \* the try_recv loop's counter
    ex_arrived,    \* transactions that have arrived so far
    cn_pc,         \* connect: "idle", "connecting", "connected" or "none"
    cn_tries,      \* connect: turns of its retry loop begun
    cn_saw_exit    \* connect: a turn has found the flag set

exitVars == <<exit_signal, ex_pc, ex_sender, ex_queue, ex_arrived, ex_txs, ex_i,
              cn_pc, cn_tries, cn_saw_exit>>

\* Persistent block store
VARIABLES
    pg_current_epoch,   \* postgres_data.current_epoch
    pg_created,         \* per epoch, what CREATE statements have created
    sv_pc,              \* per caller, where its save is
    sv_block,           \* per caller, the block it saves: epoch and transactions left
    sv_current_epoch,   \* per caller, current_epoch as read at the start
    sv_writes,          \* per caller, the INSERT statements its save has executed
    sv_result,          \* per caller, what its last save returned, and from where
    sv_calls            \* per caller, save calls begun

pgVars ==
    <<pg_current_epoch, pg_created, sv_pc, sv_block, sv_current_epoch, sv_writes,
      sv_result, sv_calls>>

\* Slot polling
VARIABLES
    last_slot,     \* poll_slots: last_slot
    ps_sent,       \* the slots sent on slot_tx, in order
    ps_open,       \* the receiver of slot_tx is alive
    ps_polls,      \* turns of the loop begun
    ps_pc          \* "polling", "returned" (with the error) or "none"

pollVars == <<last_slot, ps_sent, ps_open, ps_polls, ps_pc>>

vars == <<muxVars, clockVars, txVars, proxyVars, quicVars, blockVars, sourceVars, parVars, filterVars, lockVars, exitVars, pgVars, pollVars>>

notMux ==
    <<clockVars, txVars, proxyVars, quicVars, blockVars, sourceVars, parVars, filterVars, lockVars, exitVars, pgVars, pollVars>>

notClock ==
    <<muxVars, txVars, proxyVars, quicVars, blockVars, sourceVars, parVars, filterVars, lockVars, exitVars, pgVars, pollVars>>

notTx ==
    <<muxVars, clockVars, proxyVars, quicVars, blockVars, sourceVars, parVars, filterVars, lockVars, exitVars, pgVars, pollVars>>

notProxy ==
    <<muxVars, clockVars, txVars, quicVars, blockVars, sourceVars, parVars, filterVars, lockVars, exitVars, pgVars, pollVars>>

notQuic ==
    <<muxVars, clockVars, txVars, proxyVars, blockVars, sourceVars, parVars, filterVars, exitVars, pgVars, pollVars>>

notBlocks ==
    <<muxVars, clockVars, txVars, proxyVars, quicVars, sourceVars, parVars, filterVars, lockVars, exitVars, pgVars, pollVars>>

notSources ==
    <<muxVars, clockVars, txVars, proxyVars, quicVars, blockVars, parVars, filterVars, lockVars, exitVars, pgVars, pollVars>>

notParallel ==
    <<muxVars, clockVars, txVars, proxyVars, quicVars, blockVars, sourceVars, filterVars, lockVars, exitVars, pgVars, pollVars>>

notFilter ==
    <<muxVars, clockVars, txVars, proxyVars, quicVars, blockVars, sourceVars, parVars, lockVars, exitVars, pgVars, pollVars>>

notExit ==
    <<muxVars, clockVars, txVars, proxyVars, quicVars, blockVars, sourceVars, parVars, filterVars, lockVars, pgVars, pollVars>>

notPg ==
    <<muxVars, clockVars, txVars, proxyVars, quicVars, blockVars, sourceVars, parVars, filterVars, lockVars, exitVars, pollVars>>

notPoll ==
    <<muxVars, clockVars, txVars, proxyVars, quicVars, blockVars, sourceVars, parVars, filterVars, lockVars, exitVars, pgVars>>

(***************************************************************************)
(* BLOCK MULTIPLEXER  (cluster-endpoints/examples/grpc_using_streams.rs)   *)
(***************************************************************************)

\* Slots of the enumerated block updates are 0..MaxSlot.
MaxSlot == 2

\* The sources deliver at most MaxScript updates between them in an
\* enumerated run.
MaxScript == 3

\* The labels of the gRPC sources handed to create_multiplex.
Sources == {"green", "blue", "toxiproxy"}

\* A SubscribeUpdate: a block message of some slot, or any other message.
Block(n) == [kind |-> "block", slot |-> n]

NotABlock == [kind |-> "other", slot |-> 0]

Updates == {Block(n) : n \in 0..MaxSlot} \cup {NotABlock}

\* The updates of seq that arrive on the stream of source s, owner naming
\* the source of each.
RECURSIVE OwnedBy(_, _, _)
OwnedBy(seq, owner, s) ==
    IF seq = <<>> THEN <<>>
    ELSE (IF Head(owner) = s THEN <<Head(seq)>> ELSE <<>>)
            \o OwnedBy(Tail(seq), Tail(owner), s)

\* Every way of spreading up to MaxScript updates over the sources.
BoundedScripts ==
    UNION {{[s \in Sources |-> OwnedBy(seq, owner, s)] :
               seq \in [1..n -> Updates], owner \in [1..n -> Sources]} :
           n \in 0..MaxScript}

\* The end-to-end scenario: S1 emits 100, 101, 102 and S2 emits 100, 101, 103
\* (the third source emits nothing).
E2EScripts ==
    [s \in Sources |->
        CASE s = "green" -> <<Block(100), Block(101), Block(102)>>
          [] s = "blue" -> <<Block(100), Block(101), Block(103)>>
          [] OTHER -> <<>>]

\* A mapping that stamps every block as processed.
map_produced_block_processed(update_block_message, commitment_config) ==
    [slot |-> update_block_message.slot, commitment_config |-> "processed"]

\* map_produced_block: the block of an update, stamped with the commitment
\* it is given.
map_produced_block(update_block_message, commitment_config) ==
    [slot |-> update_block_message.slot, commitment_config |-> commitment_config]

\* The commitment main hands to create_multiplex.
MuxCommitment == "confirmed"

\* BlockCmd
ForwardBlock(produced_block) ==
    [cmd |-> "ForwardBlock", slot |-> produced_block.slot, block |-> produced_block]

DiscardBlockBehindTip(slot) == [cmd |-> "DiscardBlockBehindTip", slot |-> slot]

SkipMessage == [cmd |-> "SkipMessage", slot |-> 0]

\* A filter that lets a block of the current slot through again.
map_filter_block_message_lt(cur_slot, update_message, commitment_config) ==
    IF update_message.kind = "block"
    THEN IF update_message.slot < cur_slot /\ cur_slot # 0
         THEN DiscardBlockBehindTip(update_message.slot)
         ELSE ForwardBlock(map_produced_block(update_message, commitment_config))
    ELSE SkipMessage

map_filter_block_message(cur_slot, update_message, commitment_config) ==
    IF update_message.kind = "block"
    THEN IF update_message.slot <= cur_slot /\ cur_slot # 0
         THEN DiscardBlockBehindTip(update_message.slot)
         ELSE ForwardBlock(map_produced_block(update_message, commitment_config))
    ELSE SkipMessage

InitMux ==
    /\ script \in BoundedScripts \cup {E2EScripts}
    /\ pos = [s \in Sources |-> 0]
    /\ mux_current_slot = 0
    /\ block_sx = <<>>
    /\ mux_input = <<>>
    /\ receiver_count = 1
    /\ mux_panicked = FALSE

\* No source has anything to deliver.
IdleMux ==
    /\ script = [s \in Sources |-> <<>>]
    /\ pos = [s \in Sources |-> 0]
    /\ mux_current_slot = 0
    /\ block_sx = <<>>
    /\ mux_input = <<>>
    /\ receiver_count = 1
    /\ mux_panicked = FALSE

\* A tip that stays where it was when a block is forwarded.
current_slot_kept(cur_slot, block) == cur_slot

\* create_multiplex, ForwardBlock arm: current_slot = block.slot
current_slot_after_forward(cur_slot, block) == block.slot

\* tokio broadcast Sender::send returns Err when the channel has no live
\* receiver; block_sx.send(block).unwrap() then panics.
send_fails(receivers) == receivers = 0

\* One turn of create_multiplex's main loop: select the next message of
\* source s, filter it, and forward the block or drop the message.
MuxTakes(s) ==
    /\ ~mux_panicked
    /\ pos[s] < Len(script[s])
    /\ LET message == script[s][pos[s] + 1]
           block_cmd == map_filter_block_message(mux_current_slot, message, MuxCommitment)
       IN  /\ pos' = [pos EXCEPT ![s] = @ + 1]
           /\ mux_input' = Append(mux_input, message)
           /\ IF block_cmd.cmd = "ForwardBlock"
              THEN /\ mux_current_slot' =
                        current_slot_after_forward(mux_current_slot, block_cmd.block)
                   /\ IF send_fails(receiver_count)
                      THEN /\ mux_panicked' = TRUE
                           /\ UNCHANGED block_sx
                      ELSE /\ block_sx' = Append(block_sx, block_cmd.slot)
                           /\ UNCHANGED mux_panicked
              ELSE UNCHANGED <<mux_current_slot, block_sx, mux_panicked>>
    /\ UNCHANGED <<script, receiver_count>>

\* The same with every source's stream always ready to yield.
MuxStep(s) ==
    /\ MuxTakes(s)
    /\ UNCHANGED notMux

NextMux == \E s \in Sources : MuxStep(s)

\* A receiver of the output channel is dropped (start_example_consumer's
\* task ends, or a subscriber goes away).
ReceiverDropped ==
    /\ receiver_count > 0
    /\ receiver_count' = receiver_count - 1
    /\ UNCHANGED <<script, pos, mux_current_slot, block_sx, mux_input, mux_panicked>>
    /\ UNCHANGED notMux

\* The multiplexer with receivers that come to an end.
NextMuxOutput == NextMux \/ ReceiverDropped

AllConsumed == \A s \in Sources : pos[s] = Len(script[s])

StrictlyIncreasing(seq) ==
    \A i, j \in DOMAIN seq : i < j => seq[i] < seq[j]

\* The blocks of seq whose slot is greater than the last kept slot (last).
RECURSIVE AheadOfTip(_, _)
AheadOfTip(seq, last) ==
    IF seq = <<>> THEN <<>>
    ELSE LET u == Head(seq)
         IN  IF u.kind = "block" /\ u.slot > last
             THEN <<u.slot>> \o AheadOfTip(Tail(seq), u.slot)
             ELSE AheadOfTip(Tail(seq), last)

\* The blocks of the input the filter accepted: they are ahead of the tip,
\* or arrive while the tip is 0.
RECURSIVE Accepted(_, _)
Accepted(seq, last) ==
    IF seq = <<>> THEN <<>>
    ELSE LET u == Head(seq)
         IN  IF map_filter_block_message(last, u, MuxCommitment).cmd = "ForwardBlock"
             THEN <<u.slot>> \o Accepted(Tail(seq), u.slot)
             ELSE Accepted(Tail(seq), last)

\* C40: whether or not a receiver is subscribed, every block the filter
\* accepted has been sent on the output channel and the multiplexer, which
\* has a source, has not terminated.
C40_SendsWithoutReceiver ==
    /\ ~mux_panicked
    /\ block_sx = Accepted(mux_input, 0)

\* C1: the slots sent on the output channel are strictly increasing.
C1_OutputStrictlyIncreasing == StrictlyIncreasing(block_sx)

\* C2: the output is exactly the subsequence of the input's blocks whose slot
\* is greater than the last forwarded slot when they arrive.
C2_OutputIsAheadOfTip == block_sx = AheadOfTip(mux_input, 0)

\* C3 as stated: in the end-to-end scenario every interleaving ends with the
\* output 100, 101, 102, 103.
C3_E2EAllFour ==
    (script = E2EScripts /\ AllConsumed) => block_sx = <<100, 101, 102, 103>>

\* C3 as amended: in the end-to-end scenario every interleaving ends with a
\* strictly increasing output holding 100, 101 and 103 once each, and 102 once
\* exactly when it arrived before 103.
C3_E2EWithoutGapFill ==
    (script = E2EScripts /\ AllConsumed) =>
        /\ block_sx \in {<<100, 101, 102, 103>>, <<100, 101, 103>>}
        /\ (block_sx = <<100, 101, 102, 103>>) <=>
             (\E i, j \in DOMAIN mux_input :
                 i < j /\ mux_input[i] = Block(102) /\ mux_input[j] = Block(103))

\* The scenario has run to its end and 102, arriving after 103, was dropped.
C3_Witness ==
    script = E2EScripts /\ AllConsumed /\ block_sx = <<100, 101, 103>>

\* C27: the last forwarded slot is the slot of the block sent last (0 before
\* any is sent); and taking an update that is not a block, or a block that
\* is discarded as behind the tip, sends nothing and leaves it unchanged.
C27_TipIsLastEmitted ==
    /\ [](mux_current_slot =
             IF block_sx = <<>> THEN 0 ELSE block_sx[Len(block_sx)])
    /\ [][\A s \in Sources :
            (/\ pos'[s] = pos[s] + 1
             /\ map_filter_block_message(mux_current_slot, script[s][pos'[s]],
                     MuxCommitment).cmd \in {"SkipMessage", "DiscardBlockBehindTip"})
                => UNCHANGED <<mux_current_slot, block_sx>>]_vars

\* A block has been sent, a later block discarded as behind it, and an
\* update that is no block skipped.
C27_Witness ==
    /\ Len(block_sx) = 1
    /\ mux_current_slot = block_sx[1]
    /\ mux_current_slot > 0
    /\ Len(mux_input) = 3
    /\ mux_input[1].kind = "block"
    /\ \E i, j \in 2..3 :
          /\ mux_input[i] = NotABlock
          /\ mux_input[j].kind = "block"
          /\ mux_input[j].slot <= mux_current_slot

(***************************************************************************)
(* SLOT CLOCK  (core/src/slot_clock.rs)                                    *)
(***************************************************************************)

\* Slot updates read from the notifier carry a slot in 0..MaxClockSlot.
MaxClockSlot == 3

\* set_slot calls started by the only holder of a clock.
MaxCalls == 36

\* set_slot calls started, in all, by the holders of a shared clock.
MaxSharedCalls == 4

\* The tasks that may hold a clone of the clock (its counters are shared).
Holders == {"h1", "h2"}

\* "estimated slot should not go ahead more than 32 slots"
DRIFT_CAP == 32

Counters(cur, est) == [current_slot |-> cur, estimated_slot |-> est]

\* set_slot, Ok(Some(slot)): loc holds the counters loaded on entry, cur and
\* est the counters now; the result is the counters after the stores.
set_slot_on_update(loc, cur, est, slot) ==
    IF slot > loc.current_slot
    THEN Counters(slot, IF loc.current_slot > loc.estimated_slot THEN slot ELSE est)
    ELSE Counters(cur, est)

\* A timeout that advances estimated without a ceiling.
set_slot_on_timeout_uncapped(loc, cur, est) == Counters(cur, est + 1)

\* A timeout that still advances estimated when it is at the cap.
set_slot_on_timeout_inclusive(loc, cur, est) ==
    IF loc.estimated_slot <= loc.current_slot + DRIFT_CAP
    THEN Counters(cur, est + 1)
    ELSE Counters(cur, est)

\* set_slot, Err(timeout): fetch_add(1) unless the loaded estimate is at the cap.
set_slot_on_timeout(loc, cur, est) ==
    IF loc.estimated_slot < loc.current_slot + DRIFT_CAP
    THEN Counters(cur, est + 1)
    ELSE Counters(cur, est)

\* What the await of a set_slot call gave: "update" with the slot, "closed"
\* or "timeout"; "none" before the first.
Received(kind, slot) == [kind |-> kind, slot |-> slot]

InitClockWith(hs) ==
    /\ current_slot = 0
    /\ estimated_slot = 0
    /\ holders = hs
    /\ sc_pc = [h \in Holders |-> "idle"]
    /\ sc_local = [h \in Holders |-> Counters(0, 0)]
    /\ sc_recv = [h \in Holders |-> Received("none", 0)]
    /\ sc_calls = 0
    /\ run_n = 0
    /\ run_est0 = 0
    /\ sc_ret = [h \in Holders |-> -1]

\* SlotClock::default() with a single task calling set_slot.
InitClock == InitClockWith({"h1"})

\* SlotClock::default(), cloned to every holder.
InitClockShared == InitClockWith(Holders)

\* A clock nobody calls.
IdleClock == InitClockWith({})

CallBudget == IF Cardinality(holders) <= 1 THEN MaxCalls ELSE MaxSharedCalls

\* set_slot, line 31: current_slot is loaded.
SetSlotLoad(h) ==
    /\ h \in holders
    /\ sc_pc[h] = "idle"
    /\ sc_calls < CallBudget
    /\ sc_calls' = sc_calls + 1
    /\ sc_pc' = [sc_pc EXCEPT ![h] = "loaded"]
    /\ sc_local' = [sc_local EXCEPT ![h].current_slot = current_slot]
    /\ UNCHANGED <<current_slot, estimated_slot, holders, sc_recv, run_n, run_est0, sc_ret>>
    /\ UNCHANGED notClock

\* set_slot, line 32: estimated_slot is loaded, and the call awaits.
SetSlotLoadEstimated(h) ==
    /\ h \in holders
    /\ sc_pc[h] = "loaded"
    /\ sc_pc' = [sc_pc EXCEPT ![h] = "waiting"]
    /\ sc_local' = [sc_local EXCEPT ![h].estimated_slot = estimated_slot]
    /\ UNCHANGED <<current_slot, estimated_slot, holders, sc_recv, sc_calls, run_n,
                   run_est0, sc_ret>>
    /\ UNCHANGED notClock

\* set_slot, Ok(Some(slot)), lines 40-43: a slot above the loaded
\* current_slot is stored into current_slot.
SetSlotUpdate(h, slot) ==
    /\ h \in holders
    /\ sc_pc[h] = "waiting"
    /\ sc_recv' = [sc_recv EXCEPT ![h] = Received("update", slot)]
    /\ current_slot' =
          set_slot_on_update(sc_local[h], current_slot, estimated_slot, slot).current_slot
    /\ sc_pc' = [sc_pc EXCEPT ![h] =
                    IF slot > sc_local[h].current_slot THEN "stored" ELSE "returning"]
    /\ run_n' = 0
    /\ run_est0' = estimated_slot
    /\ UNCHANGED <<estimated_slot, holders, sc_local, sc_calls, sc_ret>>
    /\ UNCHANGED notClock

\* set_slot, lines 44-46: the slot is stored into estimated_slot if the
\* loaded current_slot was above the loaded estimated_slot.
SetSlotStoreEstimated(h) ==
    /\ h \in holders
    /\ sc_pc[h] = "stored"
    /\ estimated_slot' =
          set_slot_on_update(sc_local[h], current_slot, estimated_slot,
                             sc_recv[h].slot).estimated_slot
    /\ run_est0' = estimated_slot'
    /\ sc_pc' = [sc_pc EXCEPT ![h] = "returning"]
    /\ UNCHANGED <<current_slot, holders, sc_local, sc_recv, sc_calls, run_n, sc_ret>>
    /\ UNCHANGED notClock

\* set_slot, Ok(None), the notifier being closed.
SetSlotClosed(h) ==
    /\ h \in holders
    /\ sc_pc[h] = "waiting"
    /\ sc_recv' = [sc_recv EXCEPT ![h] = Received("closed", 0)]
    /\ run_n' = 0
    /\ run_est0' = estimated_slot
    /\ sc_pc' = [sc_pc EXCEPT ![h] = "returning"]
    /\ UNCHANGED <<current_slot, estimated_slot, holders, sc_local, sc_calls, sc_ret>>
    /\ UNCHANGED notClock

\* set_slot, Err(elapsed), lines 50-58: the fetch_add, or nothing at the cap.
SetSlotTimeout(h) ==
    /\ h \in holders
    /\ sc_pc[h] = "waiting"
    /\ sc_recv' = [sc_recv EXCEPT ![h] = Received("timeout", 0)]
    /\ LET after == set_slot_on_timeout(sc_local[h], current_slot, estimated_slot)
       IN  /\ current_slot' = after.current_slot
           /\ estimated_slot' = after.estimated_slot
    /\ run_n' = run_n + 1
    /\ sc_pc' = [sc_pc EXCEPT ![h] = "returning"]
    /\ UNCHANGED <<holders, sc_local, sc_calls, run_est0, sc_ret>>
    /\ UNCHANGED notClock

\* set_slot, line 61: estimated_slot is loaded and returned.
SetSlotReturn(h) ==
    /\ h \in holders
    /\ sc_pc[h] = "returning"
    /\ sc_ret' = [sc_ret EXCEPT ![h] = estimated_slot]
    /\ sc_pc' = [sc_pc EXCEPT ![h] = "idle"]
    /\ UNCHANGED <<current_slot, estimated_slot, holders, sc_local, sc_recv, sc_calls,
                   run_n, run_est0>>
    /\ UNCHANGED notClock

NextClock ==
    \E h \in Holders :
        \/ SetSlotLoad(h)
        \/ SetSlotLoadEstimated(h)
        \/ \E slot \in 0..MaxClockSlot : SetSlotUpdate(h, slot)
        \/ SetSlotStoreEstimated(h)
        \/ SetSlotClosed(h)
        \/ SetSlotTimeout(h)
        \/ SetSlotReturn(h)

\* C4: observed <= estimated <= observed + 32 in every reachable state.
C4_DriftInvariant ==
    /\ current_slot <= estimated_slot
    /\ estimated_slot <= current_slot + DRIFT_CAP

\* C5: the observed slot never decreases, whoever calls set_slot.
C5_ObservedNeverDecreases == [][current_slot' >= current_slot]_vars

\* C6 as stated: after n consecutive timeouts, from whatever state they
\* started in, estimated - observed <= min(n, 32).
C6_DriftAtMostN ==
    run_n >= 1 => estimated_slot - current_slot <= Min(run_n, DRIFT_CAP)

\* C6 as amended: after n consecutive timeouts that started with a drift of
\* d = estimated - observed, estimated - observed <= min(d + n, 32).
C6_DriftAtMostStartPlusN ==
    estimated_slot - current_slot
        <= Min((run_est0 - current_slot) + run_n, DRIFT_CAP)

\* More than 32 consecutive timeouts have taken the drift to its cap.
C6_Witness ==
    /\ run_n > DRIFT_CAP
    /\ run_est0 = current_slot
    /\ estimated_slot = current_slot + DRIFT_CAP

\* C23: a set_slot that receives a slot above observed makes observed that
\* slot and raises estimated to it if estimated was below, so that
\* estimated >= observed when it returns; one that receives a slot at or
\* below observed changes neither counter.  (sc_local holds the counters as
\* they were when the call began.)
C23_UpdateAdvancesBothCounters ==
    [][\A h \in Holders :
          (SetSlotReturn(h) /\ sc_recv[h].kind = "update") =>
              IF sc_recv[h].slot > sc_local[h].current_slot
              THEN /\ current_slot = sc_recv[h].slot
                   /\ estimated_slot = Max(sc_local[h].estimated_slot, sc_recv[h].slot)
                   /\ estimated_slot >= current_slot
              ELSE /\ current_slot = sc_local[h].current_slot
                   /\ estimated_slot = sc_local[h].estimated_slot]_vars

\* C24: a set_slot that times out adds exactly 1 to estimated if estimated
\* was below observed + 32 and leaves it otherwise, never changes observed,
\* and returns the value estimated then has.
C24_TimeoutStep ==
    [][\A h \in Holders :
          /\ SetSlotTimeout(h) =>
                /\ estimated_slot' =
                      IF estimated_slot < current_slot + DRIFT_CAP
                      THEN estimated_slot + 1
                      ELSE estimated_slot
                /\ current_slot' = current_slot
          /\ (SetSlotReturn(h) /\ sc_recv[h].kind = "timeout") =>
                /\ sc_ret'[h] =
                      IF sc_local[h].estimated_slot < sc_local[h].current_slot + DRIFT_CAP
                      THEN sc_local[h].estimated_slot + 1
                      ELSE sc_local[h].estimated_slot
                /\ current_slot = sc_local[h].current_slot]_vars

\* A timeout at the cap has returned the unchanged estimate, after timeouts
\* that advanced it there from a slot an update had set.
C24_Witness ==
    /\ current_slot > 0
    /\ run_n >= 2
    /\ estimated_slot = current_slot + DRIFT_CAP
    /\ sc_ret["h1"] = estimated_slot
    /\ sc_pc["h1"] = "idle"
    /\ sc_calls = MaxCalls

(***************************************************************************)
(* TRANSACTION BATCH FORWARDER  (services/src/tx_service)                  *)
(***************************************************************************)

\* The signatures of the submitted transactions.
Signatures == {"sig1", "sig2"}

\* TxInfo put on tx_channel in an enumerated run.
MaxSubmits == 3

\* TxServiceConfig.max_nb_txs_in_queue, the capacity of tx_channel.
max_nb_txs_in_queue == 2

\* 2000 in the source; a batch of that size is out of reach of enumeration.
MAX_BATCH_SIZE_IN_PER_INTERVAL == 2

Count(x, seq) == Cardinality({i \in DOMAIN seq : seq[i] = x})

InitTx ==
    /\ tx_channel = <<>>
    /\ tx_submits = 0
    /\ transaction_infos = <<>>
    /\ ledger_txs = {}
    /\ tpu_broadcasts = <<>>
    /\ notifications = <<>>
    /\ ledger_meta = <<>>
    /\ tpu_sends = <<>>

\* TxSender puts a TxInfo on the channel spawn created; it waits while the
\* channel is full.
TxChannelSend(sig) ==
    /\ tx_submits < MaxSubmits
    /\ Len(tx_channel) < max_nb_txs_in_queue
    /\ tx_channel' = Append(tx_channel, sig)
    /\ tx_submits' = tx_submits + 1
    /\ UNCHANGED <<transaction_infos, ledger_txs, tpu_broadcasts, notifications,
                   ledger_meta, tpu_sends>>
    /\ UNCHANGED notTx

\* execute, one turn of the inner while loop in which recv() returns a TxInfo:
\* a signature the store holds is skipped, any other is pushed on the batch.
ExecRecv ==
    /\ Len(transaction_infos) <= MAX_BATCH_SIZE_IN_PER_INTERVAL
    /\ tx_channel # <<>>
    /\ tx_channel' = Tail(tx_channel)
    /\ transaction_infos' =
         IF Head(tx_channel) \in ledger_txs
         THEN transaction_infos
         ELSE Append(transaction_infos, Head(tx_channel))
    /\ UNCHANGED <<tx_submits, ledger_txs, tpu_broadcasts, notifications,
                   ledger_meta, tpu_sends>>
    /\ UNCHANGED notTx

\* TxMeta::new: a store entry with no status yet.
TxMetaNew == [status |-> "None"]

\* Responses that report every transaction as sent.
quic_responses_all_sent(batch, send_ok) == [i \in DOMAIN batch |-> 1]

\* forward_txs: the quic_response of each transaction of the batch, given
\* which send_transaction calls succeed.
quic_responses(batch, send_ok) ==
    [i \in DOMAIN batch |-> IF send_ok[i] THEN 1 ELSE 0]

\* execute leaves the inner loop, on a timeout with nothing to receive or with
\* the batch over its size, and forward_txs handles the batch: every
\* signature gets a store entry, every transaction is sent, and the notifier
\* gets one message with the quic_response of each.
ExecForward(send_ok) ==
    /\ tx_channel = <<>> \/ Len(transaction_infos) > MAX_BATCH_SIZE_IN_PER_INTERVAL
    /\ transaction_infos # <<>>
    /\ send_ok \in [DOMAIN transaction_infos -> BOOLEAN]
    /\ ledger_txs' = ledger_txs \cup Range(transaction_infos)
    /\ ledger_meta' =
         [sig \in ledger_txs \cup Range(transaction_infos) |->
             IF sig \in Range(transaction_infos) THEN TxMetaNew
             ELSE ledger_meta[sig]]
    /\ tpu_sends' = tpu_sends \o
         [i \in DOMAIN transaction_infos |->
             [signature |-> transaction_infos[i], ok |-> send_ok[i]]]
    /\ tpu_broadcasts' =
         tpu_broadcasts \o SelectSeq(
             [i \in DOMAIN transaction_infos |->
                 IF send_ok[i] THEN transaction_infos[i] ELSE "-"],
             LAMBDA s : s # "-")
    /\ notifications' = Append(notifications,
         [i \in DOMAIN transaction_infos |->
             [signature |-> transaction_infos[i],
              quic_response |-> quic_responses(transaction_infos, send_ok)[i]]])
    /\ transaction_infos' = <<>>
    /\ UNCHANGED <<tx_channel, tx_submits>>
    /\ UNCHANGED notTx

NextTx ==
    \/ \E sig \in Signatures : TxChannelSend(sig)
    \/ ExecRecv
    \/ \E n \in 1..(MAX_BATCH_SIZE_IN_PER_INTERVAL + 1) :
         \E send_ok \in [1..n -> BOOLEAN] : ExecForward(send_ok)

\* C7: a signature submitted twice is broadcast to the TPU service once, and
\* has one store entry.
C7_OneBroadcastPerSignature ==
    \A sig \in Signatures : Count(sig, tpu_broadcasts) <= 1

\* C19: every batch handed to forward_txs holds at least one transaction and
\* at most MAX_BATCH_SIZE_IN_PER_INTERVAL of them.
C19_BatchSizeWithinLimit ==
    \A i \in DOMAIN notifications :
        Len(notifications[i]) \in 1..MAX_BATCH_SIZE_IN_PER_INTERVAL

\* The notifications of all batches, one after the other.
RECURSIVE AllNotified(_)
AllNotified(msgs) ==
    IF msgs = <<>> THEN <<>> ELSE Head(msgs) \o AllNotified(Tail(msgs))

\* C25: a failed send of a transaction of a batch stops nothing: every
\* transaction of every batch is sent, in batch order; a transaction whose
\* send failed keeps its store entry, with no status; and its notification
\* carries response 0 where one that was sent carries 1.
C25_SendErrorOnlyCounted ==
    LET notified == AllNotified(notifications)
    IN  /\ Len(notified) = Len(tpu_sends)
        /\ \A i \in DOMAIN tpu_sends :
              /\ notified[i].signature = tpu_sends[i].signature
              /\ notified[i].quic_response = (IF tpu_sends[i].ok THEN 1 ELSE 0)
              /\ tpu_sends[i].signature \in ledger_txs
              /\ ledger_meta[tpu_sends[i].signature].status = "None"

\* A batch whose first send failed and whose second went through.
C25_Witness ==
    \E b \in DOMAIN notifications :
        /\ Len(notifications[b]) >= 2
        /\ notifications[b][1].quic_response = 0
        /\ notifications[b][2].quic_response = 1
        /\ \E i \in DOMAIN tpu_sends :
              /\ i + 1 \in DOMAIN tpu_sends
              /\ ~tpu_sends[i].ok /\ tpu_sends[i + 1].ok
              /\ tpu_sends[i].signature = notifications[b][1].signature

(***************************************************************************)
(* BROADCAST CHANNEL AND QUIC PROXY CONNECTION MANAGER                     *)
(* (services/src/tpu_utils/quic_proxy_connection_manager.rs)               *)
(***************************************************************************)

\* Transactions sent on the broadcast channel in an enumerated run.
MaxSends == 2

\* The capacity the broadcast channel is created with (200 000 in the test).
BroadcastCapacity == 1

\* update_connection calls in an enumerated run.
MaxUpdates == 2

\* QuicConnectionParameters.number_of_transactions_per_unistream where all of
\* the manager is enumerated.
number_of_transactions_per_unistream == 2

\* QuicConnectionParameters, of which the manager reads one field.
QuicConnectionParameters(n) == [number_of_transactions_per_unistream |-> n]

CHUNK_SIZE_PER_STREAM == 20

\* The longest batch whose sending is enumerated: two full chunks and one
\* transaction more.
MaxBatchLen == 41

\* The channel capacity, the transactions sent and
\* number_of_transactions_per_unistream where the forming of batches is
\* enumerated.
DrainCapacity == 4

MaxDrainSends == 6

DrainTransactions == 3

\* The tasks that may call update_connection; a forwarding task is named
\* after the caller that spawned it.
Callers == {"c1", "c2"}

Identities == {"A", "B"}

Addresses == {"addr1", "addr2"}

\* connections_to_keep: HashMap<Pubkey, SocketAddr>
DesiredMaps == UNION {[ids -> Addresses] : ids \in SUBSET Identities}

TpuNode(identity, address) == [tpu_identity |-> identity, tpu_address |-> address]

NodesOf(connections_to_keep) ==
    {TpuNode(id, connections_to_keep[id]) : id \in DOMAIN connections_to_keep}

\* update_connection's list_of_nodes: the map's entries, in the order the
\* HashMap iterates them, which is any order.
list_of_nodes(connections_to_keep) ==
    LET nodes == NodesOf(connections_to_keep)
    IN  {l \in [1..Cardinality(nodes) -> nodes] : Range(l) = nodes}

\* A store that adds the new nodes to the ones already there.
store_tpu_nodes_extend(current, new_list) == current \o new_list

\* update_connection's `*lock = list_of_nodes`.
store_tpu_nodes(current, new_list) == new_list

\* tokio's broadcast channel keeps the next power of two of its capacity.
RECURSIVE next_power_of_two_from(_, _)
next_power_of_two_from(p, n) == IF p >= n THEN p ELSE next_power_of_two_from(2 * p, n)

BufferSize == next_power_of_two_from(1, bc_capacity)

\* connection_parameters.number_of_transactions_per_unistream
PerUnistream == connection_parameters.number_of_transactions_per_unistream

\* The position of the oldest transaction the channel still holds.
OldestRetained == Max(1, Len(bc_log) - BufferSize + 1)

\* The receivers of the broadcast channel: the one update_connection holds
\* between subscribe and spawn, and those of the forwarding tasks still running.
Receivers ==
    {w \in Callers : w_pc[w] \in {"subscribed", "recv", "drain", "read", "send"}}

\* A transaction on the channel: its number and whether its bytes
\* deserialize to a VersionedTransaction.
Tx(n, wellformed) == [id |-> n, wellformed |-> wellformed]

\* TpuForwardingRequest::new
TpuForwardingRequest(tpu_target_address, target_identity, transactions) ==
    [tpu_target_address |-> tpu_target_address,
     target_identity |-> target_identity,
     transactions |-> transactions]

\* A chunking that puts the whole batch in every envelope.
ChunkWhole(txs, k) == txs

\* txs.chunks(CHUNK_SIZE_PER_STREAM): the k-th chunk
Chunk(txs, k) ==
    SubSeq(txs, (k - 1) * CHUNK_SIZE_PER_STREAM + 1,
           Min(k * CHUNK_SIZE_PER_STREAM, Len(txs)))

\* What a batch is due to be sent to: the node map of the last completed
\* update_connection, if no call was under way while the batch was formed.
Expect(connections_to_keep) == [known |-> TRUE, map |-> connections_to_keep]

Unknown == [known |-> FALSE, map |-> <<>>]

WorkerIdle(w, pc, next) ==
    /\ w_pc' = [w_pc EXCEPT ![w] = pc]
    /\ w_next' = [w_next EXCEPT ![w] = next]

\* broadcast::channel(capacity) and QuicProxyConnectionManager::new, with the
\* tasks cs about to call update_connection with connection_parameters.
InitProxyOf(cs, capacity, parameters) ==
    /\ bc_log = <<>>
    /\ current_tpu_nodes = <<>>
    /\ simple_thread_started = FALSE
    /\ callers = cs
    /\ bc_capacity = capacity
    /\ connection_parameters = parameters
    /\ uc_pc = [c \in Callers |-> "idle"]
    /\ uc_arg = [c \in Callers |-> <<>>]
    /\ uc_calls = 0
    /\ last_desired = <<>>
    /\ w_pc = [w \in Callers |-> "none"]
    /\ w_next = [w \in Callers |-> 1]
    /\ w_txs = [w \in Callers |-> <<>>]
    /\ w_i = [w \in Callers |-> 1]
    /\ w_fanout = [w \in Callers |-> <<>>]
    /\ w_node = [w \in Callers |-> 1]
    /\ w_chunk = [w \in Callers |-> 1]
    /\ w_sent = [w \in Callers |-> <<>>]
    /\ w_expect = [w \in Callers |-> Unknown]
    /\ delivered = [id \in Identities |-> <<>>]

InitProxyWith(cs) ==
    InitProxyOf(cs, BroadcastCapacity,
                QuicConnectionParameters(number_of_transactions_per_unistream))

\* QuicProxyConnectionManager::new, with one task reconciling the connections.
InitProxy == InitProxyWith({"c1"})

\* QuicProxyConnectionManager::new, with concurrent tasks calling
\* update_connection on it.
InitProxyShared == InitProxyWith(Callers)

\* A manager nobody calls.
IdleProxy == InitProxyWith({})

\* broadcast_sender.send(tx): Ok when the channel has a receiver. A full
\* channel takes the transaction all the same: the oldest one it holds is
\* overwritten. (With no receiver send fails and the channel is unchanged.)
BroadcastSend(wellformed) ==
    /\ Receivers # {}
    /\ bc_log' = Append(bc_log, Tx(Len(bc_log) + 1, wellformed))
    /\ UNCHANGED <<current_tpu_nodes, simple_thread_started, proxySetup, uc_pc,
                   uc_arg, uc_calls, last_desired, w_pc, w_next, w_txs, w_i,
                   w_fanout, w_node, w_chunk, w_sent, w_expect, delivered>>
    /\ UNCHANGED notProxy

\* update_connection up to the release of the write lock: the node list is
\* replaced by the entries of connections_to_keep.
UpdateWrite(c, connections_to_keep) ==
    /\ c \in callers
    /\ uc_pc[c] = "idle"
    /\ uc_calls < MaxUpdates
    /\ uc_calls' = uc_calls + 1
    /\ \E l \in list_of_nodes(connections_to_keep) :
         current_tpu_nodes' = store_tpu_nodes(current_tpu_nodes, l)
    /\ uc_arg' = [uc_arg EXCEPT ![c] = connections_to_keep]
    /\ uc_pc' = [uc_pc EXCEPT ![c] = "check"]
    \* a batch being formed may now see either node list
    /\ w_expect' = [w \in Callers |->
                      IF w_pc[w] \in {"drain", "read"} THEN Unknown ELSE w_expect[w]]
    /\ UNCHANGED <<bc_log, simple_thread_started, proxySetup, last_desired, w_pc,
                   w_next, w_txs, w_i, w_fanout, w_node, w_chunk, w_sent, delivered>>
    /\ UNCHANGED notProxy

\* update_connection: simple_thread_started.load(); return if it is set.
UpdateCheck(c) ==
    /\ c \in callers
    /\ uc_pc[c] = "check"
    /\ IF simple_thread_started
       THEN /\ uc_pc' = [uc_pc EXCEPT ![c] = "idle"]
            /\ last_desired' = uc_arg[c]
            /\ uc_arg' = [uc_arg EXCEPT ![c] = <<>>]
       ELSE /\ uc_pc' = [uc_pc EXCEPT ![c] = "start"]
            /\ UNCHANGED <<last_desired, uc_arg>>
    /\ UNCHANGED <<bc_log, current_tpu_nodes, simple_thread_started, proxySetup,
                   uc_calls, w_pc, w_next, w_txs, w_i, w_fanout, w_node,
                   w_chunk, w_sent, w_expect, delivered>>
    /\ UNCHANGED notProxy

\* update_connection: simple_thread_started.store(true)
UpdateStart(c) ==
    /\ c \in callers
    /\ uc_pc[c] = "start"
    /\ simple_thread_started' = TRUE
    /\ uc_pc' = [uc_pc EXCEPT ![c] = "subscribe"]
    /\ UNCHANGED <<bc_log, current_tpu_nodes, proxySetup, uc_arg, uc_calls,
                   last_desired, w_pc, w_next, w_txs, w_i, w_fanout, w_node,
                   w_chunk, w_sent, w_expect, delivered>>
    /\ UNCHANGED notProxy

\* update_connection: transaction_sender.subscribe(). The receiver gets what
\* is sent from now on.
UpdateSubscribe(c) ==
    /\ c \in callers
    /\ uc_pc[c] = "subscribe"
    /\ WorkerIdle(c, "subscribed", Len(bc_log) + 1)
    /\ uc_pc' = [uc_pc EXCEPT ![c] = "spawn"]
    /\ UNCHANGED <<bc_log, current_tpu_nodes, simple_thread_started, proxySetup,
                   uc_arg, uc_calls, last_desired, w_txs, w_i, w_fanout,
                   w_node, w_chunk, w_sent, w_expect, delivered>>
    /\ UNCHANGED notProxy

\* update_connection: tokio::spawn(read_transactions_and_broadcast(..)) with
\* the receiver, and return.
UpdateSpawn(c) ==
    /\ c \in callers
    /\ uc_pc[c] = "spawn"
    /\ WorkerIdle(c, "recv", w_next[c])
    /\ uc_pc' = [uc_pc EXCEPT ![c] = "idle"]
    /\ last_desired' = uc_arg[c]
    /\ uc_arg' = [uc_arg EXCEPT ![c] = <<>>]
    /\ UNCHANGED <<bc_log, current_tpu_nodes, simple_thread_started, proxySetup,
                   uc_calls, w_txs, w_i, w_fanout, w_node, w_chunk, w_sent,
                   w_expect, delivered>>
    /\ UNCHANGED notProxy

\* read_transactions_and_broadcast: transaction_receiver.recv() returns.
\* Lagged is an error like any other: the task logs it and returns.
\* Otherwise the transaction starts a new batch. w_expect is the node map the
\* batch is due to go to: that of the last completed update_connection, or
\* "unknown" while a call is under way.
WorkerRecv(w) ==
    /\ w_pc[w] = "recv"
    /\ IF w_next[w] < OldestRetained
       THEN /\ WorkerIdle(w, "returned", OldestRetained)
            /\ UNCHANGED <<w_txs, w_i, w_sent, w_expect>>
       ELSE /\ w_next[w] <= Len(bc_log)
            /\ w_txs' = [w_txs EXCEPT ![w] = <<bc_log[w_next[w]]>>]
            /\ w_i' = [w_i EXCEPT ![w] = 1]
            /\ w_sent' = [w_sent EXCEPT ![w] = <<>>]
            /\ w_expect' = [w_expect EXCEPT ![w] =
                 IF \A c \in Callers : uc_pc[c] = "idle"
                 THEN Expect(last_desired) ELSE Unknown]
            /\ WorkerIdle(w, IF PerUnistream > 1 THEN "drain" ELSE "read",
                          w_next[w] + 1)
    /\ UNCHANGED <<bc_log, current_tpu_nodes, simple_thread_started, proxySetup,
                   uc_pc, uc_arg, uc_calls, last_desired, w_fanout, w_node,
                   w_chunk, delivered>>
    /\ UNCHANGED notProxy

\* A try_recv that waits for a transaction as recv does.
try_recv_waits(next, len) == next <= len

\* try_recv() returns at once, with a transaction or with an error.
try_recv_returns(next, len) == TRUE

\* One turn of `for _ in 1..number_of_transactions_per_unistream`: try_recv()
\* adds a transaction to the batch if one is there, and is ignored if it
\* reports Empty or Lagged.
WorkerTryRecv(w) ==
    /\ w_pc[w] = "drain"
    /\ try_recv_returns(w_next[w], Len(bc_log))
    /\ IF w_next[w] < OldestRetained
       THEN /\ w_next' = [w_next EXCEPT ![w] = OldestRetained]
            /\ UNCHANGED w_txs
       ELSE IF w_next[w] <= Len(bc_log)
       THEN /\ w_next' = [w_next EXCEPT ![w] = @ + 1]
            /\ w_txs' = [w_txs EXCEPT ![w] = Append(@, bc_log[w_next[w]])]
       ELSE UNCHANGED <<w_next, w_txs>>
    /\ w_i' = [w_i EXCEPT ![w] = @ + 1]
    /\ w_pc' = [w_pc EXCEPT ![w] =
                  IF w_i[w] + 1 < PerUnistream THEN "drain" ELSE "read"]
    /\ UNCHANGED <<bc_log, current_tpu_nodes, simple_thread_started, proxySetup,
                   uc_pc, uc_arg, uc_calls, last_desired, w_fanout, w_node,
                   w_chunk, w_sent, w_expect, delivered>>
    /\ UNCHANGED notProxy

\* tpu_fanout_nodes = current_tpu_nodes.read().await.clone()
WorkerReadNodes(w) ==
    /\ w_pc[w] = "read"
    /\ w_fanout' = [w_fanout EXCEPT ![w] = current_tpu_nodes]
    /\ w_node' = [w_node EXCEPT ![w] = 1]
    /\ w_chunk' = [w_chunk EXCEPT ![w] = 1]
    /\ w_i' = [w_i EXCEPT ![w] = 1]
    /\ w_pc' = [w_pc EXCEPT ![w] = IF current_tpu_nodes = <<>> THEN "recv" ELSE "send"]
    /\ UNCHANGED <<bc_log, current_tpu_nodes, simple_thread_started, proxySetup,
                   uc_pc, uc_arg, uc_calls, last_desired, w_next, w_txs,
                   w_sent, w_expect, delivered>>
    /\ UNCHANGED notProxy

\* send_copy_of_txs_to_quicproxy(...).await.unwrap() for the node at hand, one
\* send_uni at a time. A transaction that does not deserialize, or a send_uni
\* that fails, makes the call return Err, and the unwrap panics the task.
WorkerSend(w, send_ok) ==
    /\ w_pc[w] = "send"
    /\ LET node == w_fanout[w][w_node[w]]
           chunk == Chunk(w_txs[w], w_chunk[w])
           last_chunk == w_chunk[w] * CHUNK_SIZE_PER_STREAM >= Len(w_txs[w])
           last_node == w_node[w] = Len(w_fanout[w])
       IN  IF (\E i \in DOMAIN w_txs[w] : ~w_txs[w][i].wellformed) \/ ~send_ok
           THEN /\ w_pc' = [w_pc EXCEPT ![w] = "panicked"]
                /\ UNCHANGED <<w_node, w_chunk, w_sent, w_fanout, delivered>>
           ELSE /\ w_sent' = [w_sent EXCEPT ![w] = Append(@,
                     TpuForwardingRequest(node.tpu_address, node.tpu_identity, chunk))]
                /\ delivered' = [delivered EXCEPT ![node.tpu_identity] =
                     @ \o [i \in DOMAIN chunk |-> chunk[i].id]]
                /\ w_chunk' = [w_chunk EXCEPT ![w] = IF last_chunk THEN 1 ELSE @ + 1]
                /\ w_node' = [w_node EXCEPT ![w] =
                     IF last_chunk THEN (IF last_node THEN 1 ELSE @ + 1) ELSE @]
                /\ w_fanout' = [w_fanout EXCEPT ![w] =
                     IF last_chunk /\ last_node THEN <<>> ELSE @]
                /\ w_pc' = [w_pc EXCEPT ![w] =
                     IF last_chunk /\ last_node THEN "recv" ELSE "send"]
    /\ UNCHANGED <<bc_log, current_tpu_nodes, simple_thread_started, proxySetup,
                   uc_pc, uc_arg, uc_calls, last_desired, w_next, w_txs, w_i,
                   w_expect>>
    /\ UNCHANGED notProxy

NextProxy ==
    \/ \E wellformed \in BOOLEAN :
          Len(bc_log) < MaxSends /\ BroadcastSend(wellformed)
    \/ \E c \in Callers, m \in DesiredMaps : UpdateWrite(c, m)
    \/ \E c \in Callers : UpdateCheck(c)
    \/ \E c \in Callers : UpdateStart(c)
    \/ \E c \in Callers : UpdateSubscribe(c)
    \/ \E c \in Callers : UpdateSpawn(c)
    \/ \E w \in Callers : WorkerRecv(w)
    \/ \E w \in Callers : WorkerTryRecv(w)
    \/ \E w \in Callers : WorkerReadNodes(w)
    \/ \E w \in Callers, send_ok \in BOOLEAN : WorkerSend(w, send_ok)

\* C8: a transaction the broadcast channel accepted is delivered to the
\* consumer or still held for it; none is dropped or overwritten.
C8_NoSilentLoss == \A w \in Receivers : w_next[w] >= OldestRetained

\* The forwarding task has nothing left to do.
Quiescent(w) ==
    \/ w_pc[w] \in {"returned", "panicked"}
    \/ w_pc[w] = "recv" /\ w_next[w] > Len(bc_log)

\* The node whose send made the task panic.
FailedNode(w, n) == w_pc[w] = "panicked" /\ w_fanout[w][w_node[w]] = n

\* C9: after quiescence every leader of the desired set, other than one a
\* send failed for, has got each of the K transactions exactly once. (The K
\* transactions are well formed and within the channel's capacity, and the
\* desired set was fixed by one update_connection call.)
C9_EveryReachableLeaderGetsAll ==
    \A w \in Callers :
        (/\ w_pc[w] # "none"
         /\ uc_calls = 1
         /\ \A c \in Callers : uc_pc[c] = "idle"
         /\ Len(bc_log) <= BufferSize
         /\ \A i \in DOMAIN bc_log : bc_log[i].wellformed
         /\ Quiescent(w))
        => \A n \in Range(current_tpu_nodes) :
              ~FailedNode(w, n) =>
                  delivered[n.tpu_identity] = [i \in DOMAIN bc_log |-> i]

\* The nodes the batch at hand has been sent to, and those it is still to go to.
SentNodes(w) ==
    {TpuNode(r.target_identity, r.tpu_target_address) : r \in Range(w_sent[w])}

NodesToGo(w) == {w_fanout[w][k] : k \in w_node[w]..Len(w_fanout[w])}

\* C10: a batch formed after a completed update_connection(desired) call is
\* sent to the nodes of desired, all of them and no others.
C10_BatchTargetsAreDesired ==
    \A w \in Callers :
        /\ (w_pc[w] = "send" /\ w_expect[w].known) =>
               SentNodes(w) \cup NodesToGo(w) = NodesOf(w_expect[w].map)
        /\ (w_pc[w] = "recv" /\ w_expect[w].known) =>
               SentNodes(w) = NodesOf(w_expect[w].map)

\* A second update_connection has dropped node A, which got an earlier batch,
\* and the batch formed after it has gone to the node that remains.
C10_Witness ==
    \E w \in Callers :
        /\ uc_calls = 2
        /\ delivered["A"] # <<>>
        /\ w_pc[w] = "recv"
        /\ w_expect[w].known
        /\ w_expect[w].map = last_desired
        /\ DOMAIN last_desired = {"B"}
        /\ w_sent[w] # <<>>

\* C17: a worker whose subscription fell behind the lag window goes on
\* receiving; it does not leave its loop.
C17_LaggedWorkerKeepsReceiving == \A w \in Callers : w_pc[w] # "returned"

\* C18: an error inside a forwarding worker, be it a failed send or a
\* transaction that does not deserialize, leaves the worker running.
C18_WorkerSurvivesErrors == \A w \in Callers : w_pc[w] # "panicked"

\* The transactions of a sequence of envelopes, one after the other.
RECURSIVE Transactions(_)
Transactions(envelopes) ==
    IF envelopes = <<>> THEN <<>>
    ELSE Head(envelopes).transactions \o Transactions(Tail(envelopes))

\* The envelopes of the batch at hand that went to the given identity.
EnvelopesFor(w, identity) ==
    SelectSeq(w_sent[w], LAMBDA r : r.target_identity = identity)

CeilDiv(a, b) == (a + b - 1) \div b

\* A forwarding task about to send a batch: a manager set up for batches of
\* up to MaxBatchLen transactions, whose one update_connection call, with a
\* non-empty map, is over; the channel took k well-formed transactions, and
\* the task has gathered them all and read the node list. (The test sets
\* number_of_transactions_per_unistream to 10 and the bench to 1; the field
\* is the caller's to set.)
InitProxySend ==
    \E k \in 1..MaxBatchLen, m \in DesiredMaps \ {<<>>} :
        \E l \in list_of_nodes(m) :
            /\ bc_log = [i \in 1..k |-> Tx(i, TRUE)]
            /\ current_tpu_nodes = l
            /\ simple_thread_started = TRUE
            /\ callers = {"c1"}
            /\ bc_capacity = MaxBatchLen
            /\ connection_parameters = QuicConnectionParameters(MaxBatchLen)
            /\ uc_pc = [c \in Callers |-> "idle"]
            /\ uc_arg = [c \in Callers |-> <<>>]
            /\ uc_calls = 1
            /\ last_desired = m
            /\ w_pc = [w \in Callers |-> IF w = "c1" THEN "send" ELSE "none"]
            /\ w_next = [w \in Callers |-> IF w = "c1" THEN k + 1 ELSE 1]
            /\ w_txs = [w \in Callers |-> IF w = "c1" THEN bc_log ELSE <<>>]
            /\ w_i = [w \in Callers |-> 1]
            /\ w_fanout = [w \in Callers |-> IF w = "c1" THEN l ELSE <<>>]
            /\ w_node = [w \in Callers |-> 1]
            /\ w_chunk = [w \in Callers |-> 1]
            /\ w_sent = [w \in Callers |-> <<>>]
            /\ w_expect = [w \in Callers |-> IF w = "c1" THEN Expect(m) ELSE Unknown]
            /\ delivered = [id \in Identities |-> <<>>]

\* The sending of the batch, node after node and chunk after chunk.
NextProxySend == \E w \in Callers, send_ok \in BOOLEAN : WorkerSend(w, send_ok)

\* C20: for a batch of K transactions and each target node the worker sends
\* ceil(K / 20) envelopes, one send_uni each, every one with the node's
\* address and identity and between 1 and 20 transactions, which taken
\* together are the batch, in order.
C20_EnvelopesPerNode ==
    \A w \in Callers :
        (w_pc[w] = "recv" /\ w_sent[w] # <<>>) =>
            /\ w_expect[w].known =>
                  {r.target_identity : r \in Range(w_sent[w])} = DOMAIN w_expect[w].map
            /\ \A identity \in {r.target_identity : r \in Range(w_sent[w])} :
                  LET envelopes == EnvelopesFor(w, identity)
                  IN  /\ Len(envelopes) = CeilDiv(Len(w_txs[w]), 20)
                      /\ \A i \in DOMAIN envelopes :
                            /\ Len(envelopes[i].transactions) \in 1..20
                            /\ envelopes[i].tpu_target_address = envelopes[1].tpu_target_address
                            /\ w_expect[w].known =>
                                  envelopes[i].tpu_target_address = w_expect[w].map[identity]
                      /\ Transactions(envelopes) = w_txs[w]

\* A batch of 41 transactions has gone to two nodes: three envelopes each,
\* of 20, 20 and 1 transactions.
C20_Witness ==
    \E w \in Callers :
        /\ w_pc[w] = "recv"
        /\ Len(w_txs[w]) = 2 * CHUNK_SIZE_PER_STREAM + 1
        /\ \A identity \in Identities :
              LET envelopes == EnvelopesFor(w, identity)
              IN  /\ Len(envelopes) = 3
                  /\ Len(envelopes[1].transactions) = CHUNK_SIZE_PER_STREAM
                  /\ Len(envelopes[2].transactions) = CHUNK_SIZE_PER_STREAM
                  /\ Len(envelopes[3].transactions) = 1

\* C34: whatever the update_connection calls and however they interleave,
\* at most one forwarding task is spawned, with one subscription to the
\* broadcast channel.
C34_AtMostOneForwardingTask ==
    Cardinality({w \in Callers : w_pc[w] \notin {"none", "subscribed"}}) <= 1

\* A manager on a channel of DrainCapacity transactions, called with
\* number_of_transactions_per_unistream = DrainTransactions.
InitProxyDrain ==
    InitProxyOf({"c1"}, DrainCapacity, QuicConnectionParameters(DrainTransactions))

\* One update_connection call starts the forwarding task, which forms and
\* sends batch after batch of the up to MaxDrainSends transactions that are
\* sent meanwhile.
NextProxyDrain ==
    \/ Len(bc_log) < MaxDrainSends /\ BroadcastSend(TRUE)
    \/ \E c \in Callers, m \in DesiredMaps : uc_calls = 0 /\ UpdateWrite(c, m)
    \/ \E c \in Callers : UpdateCheck(c)
    \/ \E c \in Callers : UpdateStart(c)
    \/ \E c \in Callers : UpdateSubscribe(c)
    \/ \E c \in Callers : UpdateSpawn(c)
    \/ \E w \in Callers : WorkerRecv(w)
    \/ \E w \in Callers : WorkerTryRecv(w)
    \/ \E w \in Callers : WorkerReadNodes(w)
    \/ \E w \in Callers, send_ok \in BOOLEAN : WorkerSend(w, send_ok)

\* The receiver of w has a transaction waiting at its position.
Queued(w) == OldestRetained <= w_next[w] /\ w_next[w] <= Len(bc_log)

\* A batch being formed holds between 1 and
\* number_of_transactions_per_unistream transactions of the channel, in
\* channel order, and while it is formed the task can always take its next
\* turn, whatever the channel holds.
BatchWithinBounds ==
    \A w \in Callers :
        /\ w_pc[w] \in {"drain", "read"} =>
              /\ Len(w_txs[w]) >= 1
              /\ Len(w_txs[w]) <= Max(1, PerUnistream)
              /\ \A i \in DOMAIN w_txs[w] :
                    /\ w_txs[w][i].id \in DOMAIN bc_log
                    /\ w_txs[w][i] = bc_log[w_txs[w][i].id]
                    /\ w_txs[w][i].id < w_next[w]
              /\ \A i, j \in DOMAIN w_txs[w] :
                    i < j => w_txs[w][i].id < w_txs[w][j].id
        /\ w_pc[w] = "drain" =>
              /\ w_i[w] < Max(1, PerUnistream)
              /\ ENABLED WorkerTryRecv(w)

\* A batch starts with the transaction the task waited for; each of the
\* number_of_transactions_per_unistream - 1 turns that follow adds the
\* transaction waiting at the receiver's position, if there is one, and
\* nothing otherwise; and the batch is not touched after the last turn.
BatchTakesWhatIsQueued ==
    \A w \in Callers :
        /\ (w_pc[w] = "recv" /\ w_pc'[w] \in {"drain", "read"}) =>
              /\ Queued(w)
              /\ w_txs'[w] = <<bc_log[w_next[w]]>>
        /\ (w_pc[w] = "drain" /\ w_i'[w] # w_i[w]) =>
              /\ w_i'[w] = w_i[w] + 1
              /\ w_txs'[w] = IF Queued(w) THEN Append(w_txs[w], bc_log[w_next[w]])
                             ELSE w_txs[w]
              /\ w_pc'[w] = IF w_i'[w] < PerUnistream THEN "drain" ELSE "read"
        /\ (w_pc[w] = "drain" /\ w_i'[w] = w_i[w]) =>
              (w_txs'[w] = w_txs[w] /\ w_pc'[w] = "drain")
        /\ w_pc[w] = "read" => w_txs'[w] = w_txs[w]

\* C28: each batch the worker forms is the transaction it waited for followed
\* by the transactions it finds queued, in channel order, up to
\* number_of_transactions_per_unistream in all; and once the first has
\* arrived the worker never waits for more.
C28_BatchIsFirstPlusQueued == []BatchWithinBounds /\ [][BatchTakesWhatIsQueued]_vars

\* A full batch of three: the transaction waited for and the two next in the
\* channel, with a fourth left queued for the next batch.
C28_Witness ==
    \E w \in Callers :
        /\ w_pc[w] = "read"
        /\ PerUnistream = DrainTransactions
        /\ Len(w_txs[w]) = PerUnistream
        /\ \A i \in 1..(Len(w_txs[w]) - 1) : w_txs[w][i].id + 1 = w_txs[w][i + 1].id
        /\ Queued(w)

(***************************************************************************)
(* AUTO-RECONNECTING QUIC CONNECTION                                       *)
(* (quic-forward-proxy/src/quinn_auto_reconnect.rs)                        *)
(***************************************************************************)

\* send_uni calls in an enumerated run.
MaxSendUni == 3

\* The tasks that may call send_uni on one AutoReconnect.
Senders == {"s1", "s2"}

\* Option<Connection>::None
NoConnection == 0

\* A liveness test that takes any stored connection for a live one.
is_live_any_stored(conn, closed) == conn # NoConnection

\* refresh under the read lock:
\* maybe_conn.filter(|conn| conn.close_reason().is_none()).is_some()
is_live(conn, closed) == conn # NoConnection /\ conn \notin closed

\* A write-locked refresh that does not look at the stored connection again.
write_lock_reuses_never(conn, closed) == FALSE

\* refresh under the write lock: Some(current) with close_reason() unset.
write_lock_reuses(conn, closed) == conn # NoConnection /\ conn \notin closed

\* What a refresh call examined and did: how it ended, the stored connection
\* it examined last and whether its close reason was set, whether that was
\* under the write lock, the connection it returned, the stored connection
\* when it returned, and the connections made before it.
RefreshRecord(how, seen, seen_closed, locked, ret, after, made_before) ==
    [how |-> how, seen |-> seen, seen_closed |-> seen_closed, locked |-> locked,
     ret |-> ret, after |-> after, made_before |-> made_before]

NoRefresh == RefreshRecord("none", NoConnection, FALSE, FALSE, NoConnection, NoConnection, 0)

InitReconnectWith(ss) ==
    /\ ar_current = NoConnection
    /\ ar_made = 0
    /\ ar_closed = {}
    /\ reconnect_count = 0
    /\ ar_writer = "none"
    /\ senders = ss
    /\ su_pc = [s \in Senders |-> "idle"]
    /\ su_conn = [s \in Senders |-> NoConnection]
    /\ su_how = [s \in Senders |-> NoRefresh]
    /\ su_stalled = [s \in Senders |-> FALSE]
    /\ su_result = [s \in Senders |-> "none"]
    /\ su_calls = 0

\* No read guard is held, and connection_stats has not been called.
InitLock ==
    /\ ar_readers = {}
    /\ cs_result = [called |-> FALSE, conn |-> NoConnection]

IdleLock == InitLock

\* A refresh that still holds its read guard when it asks for the write lock.
read_guard_kept(readers, s) == readers \cup {s}

\* refresh: the block that holds the read guard ends before
\* self.current.write().await, so the guard is dropped.
read_guard_after_check(readers, s) == readers \ {s}

\* connection_stats: takes the read lock, formats the statistics of the
\* stored connection, "n/a" for None, and lets go of the lock; it awaits
\* nothing while it holds the guard.
ConnectionStats ==
    /\ senders # {}
    /\ ar_writer = "none"
    /\ cs_result' = [called |-> TRUE, conn |-> ar_current]
    /\ cs_result' # cs_result
    /\ UNCHANGED ar_readers
    /\ UNCHANGED quicVars
    /\ UNCHANGED notQuic

\* send_uni calls refresh, which takes the read lock: a live stored
\* connection is returned, otherwise the caller goes for the write lock.
RefreshRead(s) ==
    /\ s \in senders
    /\ su_pc[s] = "idle"
    /\ su_calls < MaxSendUni
    /\ ar_writer = "none"
    /\ su_calls' = su_calls + 1
    /\ su_result' = [su_result EXCEPT ![s] = "none"]
    /\ IF is_live(ar_current, ar_closed)
       THEN /\ su_pc' = [su_pc EXCEPT ![s] = "open"]
            /\ su_conn' = [su_conn EXCEPT ![s] = ar_current]
            /\ su_how' = [su_how EXCEPT ![s] =
                 RefreshRecord("reuse", ar_current, ar_current \in ar_closed, FALSE,
                               ar_current, ar_current, ar_made)]
       ELSE /\ su_pc' = [su_pc EXCEPT ![s] = "wait_write"]
            /\ su_conn' = [su_conn EXCEPT ![s] = NoConnection]
            /\ su_how' = [su_how EXCEPT ![s] = NoRefresh]
    /\ ar_readers' = IF is_live(ar_current, ar_closed) THEN ar_readers
                      ELSE read_guard_after_check(ar_readers, s)
    /\ UNCHANGED cs_result
    /\ UNCHANGED <<ar_current, ar_made, ar_closed, reconnect_count, ar_writer,
                   senders, su_stalled>>
    /\ UNCHANGED <<sa_pc, sa_steps, sa_result, sa_attempts>>
    /\ UNCHANGED notQuic

\* refresh takes the write lock and looks at the stored connection again: a
\* live one is returned, otherwise create_connection is awaited with the
\* lock held.
RefreshWrite(s) ==
    /\ s \in senders
    /\ su_pc[s] = "wait_write"
    /\ ar_writer = "none"
    /\ ar_readers = {}
    /\ IF write_lock_reuses(ar_current, ar_closed)
       THEN /\ su_pc' = [su_pc EXCEPT ![s] = "open"]
            /\ su_conn' = [su_conn EXCEPT ![s] = ar_current]
            /\ su_how' = [su_how EXCEPT ![s] =
                 RefreshRecord("reuse", ar_current, ar_current \in ar_closed, TRUE,
                               ar_current, ar_current, ar_made)]
            /\ UNCHANGED ar_writer
       ELSE /\ su_pc' = [su_pc EXCEPT ![s] = "creating"]
            /\ su_how' = [su_how EXCEPT ![s] =
                 RefreshRecord("creating", ar_current, ar_current \in ar_closed, TRUE,
                               NoConnection, NoConnection, ar_made)]
            /\ ar_writer' = s
            /\ UNCHANGED su_conn
    /\ UNCHANGED <<ar_current, ar_made, ar_closed, reconnect_count, senders,
                   su_stalled, su_result, su_calls>>
    /\ UNCHANGED <<sa_pc, sa_steps, sa_result, sa_attempts>>
    /\ UNCHANGED notQuic
    /\ UNCHANGED lockVars

\* A count raised for every connection stored.
reconnect_count_after_any(count, seen) == count + 1

\* refresh under the write lock: reconnect_count.fetch_add(1) in the arm that
\* replaces a closed connection (seen), none in the arm that found None.
reconnect_count_after(count, seen) ==
    IF seen # NoConnection THEN count + 1 ELSE count

\* create_connection returns: the new connection is stored and returned, and
\* reconnect_count is raised if it replaces a closed one. A failed handshake
\* panics the caller (expect), which lets go of the lock.
RefreshCreated(s, connected) ==
    /\ su_pc[s] = "creating"
    /\ ar_writer' = "none"
    /\ IF connected
       THEN /\ ar_made' = ar_made + 1
            /\ ar_current' = ar_made + 1
            /\ reconnect_count' = reconnect_count_after(reconnect_count, su_how[s].seen)
            /\ su_conn' = [su_conn EXCEPT ![s] = ar_made + 1]
            /\ su_how' = [su_how EXCEPT ![s] =
                 [@ EXCEPT !.how = IF su_how[s].seen = NoConnection
                                   THEN "create" ELSE "replace",
                           !.ret = ar_made + 1,
                           !.after = ar_made + 1]]
            /\ su_pc' = [su_pc EXCEPT ![s] = "open"]
       ELSE /\ su_pc' = [su_pc EXCEPT ![s] = "panicked"]
            /\ su_how' = [su_how EXCEPT ![s] = NoRefresh]
            /\ UNCHANGED <<ar_made, ar_current, reconnect_count, su_conn>>
    /\ UNCHANGED <<ar_closed, senders, su_stalled, su_result, su_calls>>
    /\ UNCHANGED <<sa_pc, sa_steps, sa_result, sa_attempts>>
    /\ UNCHANGED notQuic
    /\ UNCHANGED lockVars

\* The peer or the idle timer closes a connection: its close reason is set,
\* and what was pending on its streams can now only fail.
ConnectionCloses(conn) ==
    /\ conn \in 1..ar_made
    /\ conn \notin ar_closed
    /\ ar_closed' = ar_closed \cup {conn}
    /\ su_stalled' = [s \in Senders |-> su_stalled[s] /\ su_conn[s] # conn]
    /\ UNCHANGED <<ar_current, ar_made, reconnect_count, ar_writer, senders,
                   su_pc, su_conn, su_how, su_result, su_calls>>
    /\ UNCHANGED <<sa_pc, sa_steps, sa_result, sa_attempts>>
    /\ UNCHANGED notQuic
    /\ UNCHANGED lockVars

\* send_uni returns to its caller.
SendUniReturn(s, result) ==
    /\ su_pc' = [su_pc EXCEPT ![s] = "idle"]
    /\ su_result' = [su_result EXCEPT ![s] = result]
    /\ su_conn' = [su_conn EXCEPT ![s] = NoConnection]
    /\ su_stalled' = [su_stalled EXCEPT ![s] = FALSE]

\* send_uni: timeout_fallback(connection.open_uni()). The stream opens, or
\* open_uni fails (as it does on a closed connection), or the timeout
\* elapses; either failure is returned to the caller.
SendUniOpen(s, outcome) ==
    /\ su_pc[s] = "open"
    /\ outcome = "ok" => su_conn[s] \notin ar_closed
    /\ IF outcome = "ok"
       THEN /\ su_pc' = [su_pc EXCEPT ![s] = "write"]
            /\ UNCHANGED <<su_result, su_conn, su_stalled>>
       ELSE SendUniReturn(s, "err")
    /\ UNCHANGED <<ar_current, ar_made, ar_closed, reconnect_count, ar_writer,
                   senders, su_how, su_calls>>
    /\ UNCHANGED <<sa_pc, sa_steps, sa_result, sa_attempts>>
    /\ UNCHANGED notQuic
    /\ UNCHANGED lockVars

\* The peer stops serving the stream (it grants no more flow-control credit
\* and acknowledges nothing) while the connection is kept alive.
PeerStalls(s) ==
    /\ su_pc[s] \in {"write", "finish"}
    /\ su_conn[s] \notin ar_closed
    /\ ~su_stalled[s]
    /\ su_stalled' = [su_stalled EXCEPT ![s] = TRUE]
    /\ UNCHANGED <<ar_current, ar_made, ar_closed, reconnect_count, ar_writer,
                   senders, su_pc, su_conn, su_how, su_result, su_calls>>
    /\ UNCHANGED <<sa_pc, sa_steps, sa_result, sa_attempts>>
    /\ UNCHANGED notQuic
    /\ UNCHANGED lockVars

\* send_uni: send_stream.write_all(payload).await? completes, with Ok or
\* with an error; nothing bounds the wait for it.
SendUniWrite(s, written) ==
    /\ su_pc[s] = "write"
    /\ ~su_stalled[s]
    /\ written => su_conn[s] \notin ar_closed
    /\ IF written
       THEN /\ su_pc' = [su_pc EXCEPT ![s] = "finish"]
            /\ UNCHANGED <<su_result, su_conn, su_stalled>>
       ELSE SendUniReturn(s, "err")
    /\ UNCHANGED <<ar_current, ar_made, ar_closed, reconnect_count, ar_writer,
                   senders, su_how, su_calls>>
    /\ UNCHANGED <<sa_pc, sa_steps, sa_result, sa_attempts>>
    /\ UNCHANGED notQuic
    /\ UNCHANGED lockVars

\* send_uni: send_stream.finish().await? completes, with Ok or with an
\* error; nothing bounds the wait for it.
SendUniFinish(s, finished) ==
    /\ su_pc[s] = "finish"
    /\ ~su_stalled[s]
    /\ finished => su_conn[s] \notin ar_closed
    /\ SendUniReturn(s, IF finished THEN "ok" ELSE "err")
    /\ UNCHANGED <<ar_current, ar_made, ar_closed, reconnect_count, ar_writer,
                   senders, su_how, su_calls>>
    /\ UNCHANGED <<sa_pc, sa_steps, sa_result, sa_attempts>>
    /\ UNCHANGED notQuic
    /\ UNCHANGED lockVars

\* The steps of sender s inside send_uni.
SendUniStep(s) ==
    \/ RefreshRead(s)
    \/ RefreshWrite(s)
    \/ \E connected \in BOOLEAN : RefreshCreated(s, connected)
    \/ \E outcome \in {"ok", "err", "timeout"} : SendUniOpen(s, outcome)
    \/ \E written \in BOOLEAN : SendUniWrite(s, written)
    \/ \E finished \in BOOLEAN : SendUniFinish(s, finished)

NextReconnect ==
    \/ \E s \in Senders : SendUniStep(s)
    \/ ConnectionStats
    \/ \E conn \in 1..MaxSendUni : ConnectionCloses(conn)
    \/ \E s \in Senders : PeerStalls(s)

(***************************************************************************)
(* QUIC SEND ATTEMPT  (quic-forward-proxy/src/quic_connection_utils.rs)    *)
(***************************************************************************)

\* Send attempts in an enumerated run.
MaxAttempts == 1

\* What a step on the stream may come to: Ok, an error of the connection or
\* stream, or the step's timeout elapsing.
StepOutcomes == {"ok", "err", "timeout"}

\* QuicConnectionError
TimeOut == [kind |-> "TimeOut"]

ConnectionError(retry) == [kind |-> "ConnectionError", retry |-> retry]

\* Result<_, QuicConnectionError>
Ok == [kind |-> "Ok"]

\* No result yet.
Pending == [kind |-> "Pending"]

\* open_unistream: the match on timeout(connection_timeout, open_uni())
open_unistream(outcome) ==
    CASE outcome = "ok" -> Ok
      [] outcome = "err" -> ConnectionError(TRUE)
      [] outcome = "timeout" -> TimeOut

\* write_all: the match on write_timeout_res
write_all_write(outcome) ==
    CASE outcome = "ok" -> Ok
      [] outcome = "err" -> ConnectionError(TRUE)
      [] outcome = "timeout" -> TimeOut

\* A finish whose error asks for a retry.
write_all_finish_retry(outcome) ==
    CASE outcome = "ok" -> Ok
      [] outcome = "err" -> ConnectionError(TRUE)
      [] outcome = "timeout" -> TimeOut

\* write_all: the match on finish_timeout_res
write_all_finish(outcome) ==
    CASE outcome = "ok" -> Ok
      [] outcome = "err" -> ConnectionError(FALSE)
      [] outcome = "timeout" -> TimeOut

InitAttempt ==
    /\ sa_pc = "DONE"
    /\ sa_steps = <<>>
    /\ sa_result = Pending
    /\ sa_attempts = 0

Step(name, outcome) == [step |-> name, outcome |-> outcome]

\* A send attempt begins.
AttemptStart ==
    /\ sa_pc = "DONE"
    /\ sa_attempts < MaxAttempts
    /\ sa_attempts' = sa_attempts + 1
    /\ sa_pc' = "OPENING_STREAM"
    /\ sa_steps' = <<>>
    /\ sa_result' = Pending
    /\ UNCHANGED <<ar_current, ar_made, ar_closed, reconnect_count, ar_writer,
                   senders, su_pc, su_conn, su_how, su_stalled, su_result, su_calls>>
    /\ UNCHANGED notQuic
    /\ UNCHANGED lockVars

\* open_unistream returns: with the stream the attempt goes on to write_all,
\* with an error it is over.
AttemptOpen(outcome) ==
    /\ sa_pc = "OPENING_STREAM"
    /\ sa_steps' = Append(sa_steps, Step("OPENING_STREAM", outcome))
    /\ LET res == open_unistream(outcome)
       IN  IF res = Ok
           THEN sa_pc' = "WRITING" /\ UNCHANGED sa_result
           ELSE sa_pc' = "DONE" /\ sa_result' = res
    /\ UNCHANGED sa_attempts
    /\ UNCHANGED <<ar_current, ar_made, ar_closed, reconnect_count, ar_writer,
                   senders, su_pc, su_conn, su_how, su_stalled, su_result, su_calls>>
    /\ UNCHANGED notQuic
    /\ UNCHANGED lockVars

\* write_all up to the end of the match on write_timeout_res.
AttemptWrite(outcome) ==
    /\ sa_pc = "WRITING"
    /\ sa_steps' = Append(sa_steps, Step("WRITING", outcome))
    /\ LET res == write_all_write(outcome)
       IN  IF res = Ok
           THEN sa_pc' = "FINISHING" /\ UNCHANGED sa_result
           ELSE sa_pc' = "DONE" /\ sa_result' = res
    /\ UNCHANGED sa_attempts
    /\ UNCHANGED <<ar_current, ar_made, ar_closed, reconnect_count, ar_writer,
                   senders, su_pc, su_conn, su_how, su_stalled, su_result, su_calls>>
    /\ UNCHANGED notQuic
    /\ UNCHANGED lockVars

\* write_all from the finish to its return.
AttemptFinish(outcome) ==
    /\ sa_pc = "FINISHING"
    /\ sa_steps' = Append(sa_steps, Step("FINISHING", outcome))
    /\ sa_pc' = "DONE"
    /\ sa_result' = write_all_finish(outcome)
    /\ UNCHANGED sa_attempts
    /\ UNCHANGED <<ar_current, ar_made, ar_closed, reconnect_count, ar_writer,
                   senders, su_pc, su_conn, su_how, su_stalled, su_result, su_calls>>
    /\ UNCHANGED notQuic
    /\ UNCHANGED lockVars

NextAttempt ==
    \/ AttemptStart
    \/ \E outcome \in StepOutcomes : AttemptOpen(outcome)
    \/ \E outcome \in StepOutcomes : AttemptWrite(outcome)
    \/ \E outcome \in StepOutcomes : AttemptFinish(outcome)

InitQuic == InitReconnectWith(Senders) /\ InitAttempt /\ InitLock

\* A connection nobody sends on.
IdleQuic == InitReconnectWith({}) /\ InitAttempt /\ IdleLock

NextQuic == NextReconnect \/ NextAttempt

\* C11: refresh returns the stored connection, unchanged, when its close
\* reason is unset; creates and stores a connection when none is stored;
\* replaces the stored connection by a new one when its close reason is set;
\* and never returns the connection it found closed.
C11_RefreshReturnsLiveConnection ==
    \A s \in Senders :
        LET h == su_how[s]
        IN  h.how \in {"reuse", "create", "replace"} =>
              /\ (h.seen # NoConnection /\ ~h.seen_closed) =>
                     h.how = "reuse" /\ h.ret = h.seen /\ h.after = h.seen
              /\ h.seen = NoConnection =>
                     h.how = "create" /\ h.ret > h.made_before /\ h.after = h.ret
              /\ (h.seen # NoConnection /\ h.seen_closed) =>
                     /\ h.how = "replace"
                     /\ h.ret > h.made_before
                     /\ h.ret # h.seen
                     /\ h.after = h.ret

\* A refresh has replaced a stored connection whose close reason was set.
C11_Witness ==
    \E s \in Senders :
        /\ su_how[s].how = "replace"
        /\ su_how[s].seen \in ar_closed
        /\ ar_current = su_how[s].ret

\* The refresh calls that have returned a connection.
Refreshed == {s \in Senders : su_how[s].how \in {"reuse", "create", "replace"}}

\* C12: concurrent refresh callers that find no live connection make one
\* connection between them (a further one is made only after the last one
\* closed), it is stored while the write lock is held, and while it stays
\* open every caller returns it.
C12_OneConnectionForConcurrentCallers ==
    /\ [](/\ ar_made <= Cardinality(ar_closed) + 1
          /\ ar_closed = {} =>
                \A s \in Refreshed : su_how[s].ret = ar_current /\ ar_current = 1)
    /\ [][ar_current' # ar_current => ar_writer # "none" /\ ar_writer' = "none"]_vars

\* Two callers found no connection under the read lock; one made the
\* connection and the other got it on its second look, under the write lock.
C12_Witness ==
    \E s, t \in Senders :
        /\ s # t
        /\ su_how[s].how = "create"
        /\ su_how[t].how = "reuse"
        /\ su_how[t].locked
        /\ su_how[t].ret = su_how[s].ret
        /\ ar_made = 1

\* C13: a send_uni that has got as far as opening, writing or finishing its
\* stream returns, whatever the peer does.
C13_SendUniReturns ==
    \A s \in Senders :
        (su_pc[s] \in {"open", "write", "finish"}) ~> (su_pc[s] = "idle")

\* QuicConnectionError values the caller may retry on.
Recoverable(e) ==
    e.kind = "TimeOut" \/ (e.kind = "ConnectionError" /\ e.retry)

StepNames == <<"OPENING_STREAM", "WRITING", "FINISHING">>

\* C14: a send attempt goes OPENING_STREAM, WRITING, FINISHING, DONE; a
\* timeout at any step, an open error and a write error end it with a
\* recoverable error, a finish error with ConnectionError {retry: false};
\* finish is tried only after a successful write, and the attempt is Ok only
\* when write and finish both were.
C14_SendAttemptOutcome ==
    /\ Len(sa_steps) <= 3
    /\ \A i \in DOMAIN sa_steps :
          /\ sa_steps[i].step = StepNames[i]
          /\ i > 1 => sa_steps[i - 1].outcome = "ok"
    /\ (sa_pc = "DONE" /\ sa_steps # <<>>) =>
          LET last == sa_steps[Len(sa_steps)]
          IN  /\ sa_result = Ok <=>
                    /\ Step("WRITING", "ok") \in Range(sa_steps)
                    /\ Step("FINISHING", "ok") \in Range(sa_steps)
              /\ last.outcome = "timeout" =>
                    sa_result = TimeOut /\ Recoverable(sa_result)
              /\ (last.outcome = "err" /\ last.step \in {"OPENING_STREAM", "WRITING"}) =>
                    sa_result = ConnectionError(TRUE) /\ Recoverable(sa_result)
              /\ last = Step("FINISHING", "err") =>
                    sa_result = ConnectionError(FALSE) /\ ~Recoverable(sa_result)

\* An attempt wrote its payload and then failed to finish the stream.
C14_Witness ==
    /\ sa_pc = "DONE"
    /\ Len(sa_steps) = 3
    /\ sa_steps[3] = Step("FINISHING", "err")
    /\ sa_result = ConnectionError(FALSE)

\* C30 as stated: reconnect_count is the number of connections the record
\* has created and stored.
C30_ReconnectCountIsCreated == reconnect_count = ar_made

\* C30 as amended: reconnect_count is the number of closed connections the
\* record has replaced, which is every connection it created but the first.
C30_ReconnectCountIsReplaced == reconnect_count = Max(ar_made - 1, 0)

\* The record has replaced a closed connection and is at rest.
C30_Witness ==
    /\ ar_made >= 2
    /\ reconnect_count >= 1
    /\ ar_current = ar_made
    /\ ar_writer = "none"

\* C31: a caller waiting for the write lock, or establishing a connection
\* under it, holds no read guard; the holder of the write lock is
\* establishing a connection; and a caller waiting for the write lock gets
\* it in the end.
C31_NoCallerWaitsForever ==
    /\ [](\A s \in Senders :
            su_pc[s] \in {"wait_write", "creating"} => s \notin ar_readers)
    /\ [](ar_writer # "none" => su_pc[ar_writer] = "creating")
    /\ \A s \in Senders : (su_pc[s] = "wait_write") ~> (su_pc[s] # "wait_write")

\* One caller has created the connection under the write lock, another that
\* waited for the lock has then found it there, and connection_stats has
\* read it.
C31_Witness ==
    \E s, t \in Senders :
        /\ s # t
        /\ su_how[s].how = "create"
        /\ su_how[t].how = "reuse"
        /\ su_how[t].locked
        /\ cs_result = [called |-> TRUE, conn |-> ar_current]
        /\ ar_current # NoConnection

(***************************************************************************)
(* PARALLEL BATCH SEND  (quic-forward-proxy/src/quic_connection_utils.rs)  *)
(***************************************************************************)

\* Transactions in the batch of an enumerated call.
MaxParallelBatch == 9

\* "number of parallel streams that connect to TPU must be limited by caller
\* (should be 8)": the number the peer is taken to allow.
PeerMaxStreams == 8

\* What open_unistream_simple makes of connection.open_uni() under
\* connection_timeout: Ok, Err, or the timeout elapsed.
ParallelOutcomes == {"ok", "err", "timeout"}

InitParallel ==
    /\ pb_call = "none"
    /\ pb_txs = <<>>
    /\ pb_pc = <<>>
    /\ pb_stream = <<>>
    /\ pb_opened = 0
    /\ pb_live = {}
    /\ pb_written = <<>>

IdleParallel == InitParallel

\* send_transaction_batch_parallel is called with k >= 1 transactions and
\* makes one send_tx_to_new_stream future for each; join_all polls them all.
ParallelStart(k) ==
    /\ pb_call = "none"
    /\ pb_call' = "running"
    /\ pb_txs' = [i \in 1..k |-> i]
    /\ pb_pc' = [i \in 1..k |-> "open"]
    /\ pb_stream' = [i \in 1..k |-> 0]
    /\ pb_written' = [i \in 1..k |-> <<>>]
    /\ UNCHANGED <<pb_opened, pb_live>>
    /\ UNCHANGED notParallel

\* What is left of the futures when join_all is dropped by a panic: those
\* not yet done are dropped, and their streams with them.
Dropped(pcs) == [i \in DOMAIN pcs |-> IF pcs[i] = "done" THEN "done" ELSE "dropped"]

\* send_tx_to_new_stream, open_unistream_simple(..).await.0.unwrap(): Ok
\* gives the future a new stream, which is named after the future; a failed
\* open and a timed-out one yield None, and the unwrap panics out of join_all.
ParallelOpen(i, outcome) ==
    /\ pb_call = "running"
    /\ i \in DOMAIN pb_pc
    /\ pb_pc[i] = "open"
    /\ IF outcome = "ok"
       THEN /\ pb_opened' = pb_opened + 1
            /\ pb_stream' = [pb_stream EXCEPT ![i] = i]
            /\ pb_live' = pb_live \cup {i}
            /\ pb_pc' = [pb_pc EXCEPT ![i] = "write"]
            /\ UNCHANGED pb_call
       ELSE /\ pb_call' = "panicked"
            /\ pb_pc' = Dropped(pb_pc)
            /\ pb_live' = {}
            /\ UNCHANGED <<pb_opened, pb_stream>>
    /\ UNCHANGED <<pb_txs, pb_written>>
    /\ UNCHANGED notParallel

\* send_tx_to_new_stream, the write under connection_timeout: whatever comes
\* of it (Ok, or an error or a timeout, which are logged), the future goes
\* on to finish.
ParallelWrite(i) ==
    /\ pb_call = "running"
    /\ i \in DOMAIN pb_pc
    /\ pb_pc[i] = "write"
    /\ pb_written' = [pb_written EXCEPT ![i] = Append(@, pb_stream[i])]
    /\ pb_pc' = [pb_pc EXCEPT ![i] = "finish"]
    /\ UNCHANGED <<pb_call, pb_txs, pb_stream, pb_opened, pb_live>>
    /\ UNCHANGED notParallel

\* send_tx_to_new_stream, the finish under its 200 ms timeout; whatever
\* comes of it is dropped, and so is the stream as the future ends.
ParallelFinish(i) ==
    /\ pb_call = "running"
    /\ i \in DOMAIN pb_pc
    /\ pb_pc[i] = "finish"
    /\ pb_pc' = [pb_pc EXCEPT ![i] = "done"]
    /\ pb_live' = pb_live \ {pb_stream[i]}
    /\ UNCHANGED <<pb_call, pb_txs, pb_stream, pb_opened, pb_written>>
    /\ UNCHANGED notParallel

\* join_all(all_send_fns).await is over.
ParallelReturn ==
    /\ pb_call = "running"
    /\ \A i \in DOMAIN pb_pc : pb_pc[i] = "done"
    /\ pb_call' = "returned"
    /\ UNCHANGED <<pb_txs, pb_pc, pb_stream, pb_opened, pb_live, pb_written>>
    /\ UNCHANGED notParallel

NextParallel ==
    \/ \E k \in 1..MaxParallelBatch : ParallelStart(k)
    \/ \E i \in 1..MaxParallelBatch, outcome \in ParallelOutcomes :
          ParallelOpen(i, outcome)
    \/ \E i \in 1..MaxParallelBatch : ParallelWrite(i)
    \/ \E i \in 1..MaxParallelBatch : ParallelFinish(i)
    \/ ParallelReturn

WritesOf(tx) == pb_written[tx]

\* C29: once a parallel batch send of K transactions is over, K streams
\* have been opened and every transaction has been written once, to a
\* stream of its own; no transaction is ever written twice.
C29_OneStreamPerTransaction ==
    /\ \A i \in DOMAIN pb_txs : Len(WritesOf(pb_txs[i])) <= 1
    /\ pb_call \in {"returned", "panicked"} =>
          /\ pb_opened = Len(pb_txs)
          /\ \A i \in DOMAIN pb_txs : Len(WritesOf(pb_txs[i])) = 1
          /\ \A i, j \in DOMAIN pb_txs : i # j => pb_stream[i] # pb_stream[j]

(***************************************************************************)
(* IN-MEMORY BLOCK STORE                                                   *)
(* (history/src/block_stores/inmemory_block_store.rs)                      *)
(***************************************************************************)

\* Blocks handed to store have a slot in 0..MaxBlockSlot.
MaxBlockSlot == 2

\* store calls in an enumerated run.
MaxStores == 3

\* Stores are created with number_of_blocks_to_store in 0..MaxBlocksToStore.
MaxBlocksToStore == 2

\* CommitmentConfig levels and the ordinal Commitment::from gives them.
Commitments == {"processed", "confirmed", "finalized"}

CommitmentOrdinal(commitment_config) ==
    CASE commitment_config = "processed" -> 0
      [] commitment_config = "confirmed" -> 1
      [] commitment_config = "finalized" -> 2

Blockhashes == {"hash1", "hash2"}

\* ProducedBlock
ProducedBlock(slot, commitment_config, blockhash) ==
    [slot |-> slot, commitment_config |-> commitment_config, blockhash |-> blockhash]

ProducedBlocks ==
    {ProducedBlock(slot, c, h) : slot \in 0..MaxBlockSlot, c \in Commitments, h \in Blockhashes}

\* No block: what get_mut found when the slot was not stored.
NoBlock == ProducedBlock(0, "none", "none")

\* store: overwrite = commitment_block > commitment_store
overwrite(block, x) ==
    CommitmentOrdinal(block.commitment_config) > CommitmentOrdinal(x.commitment_config)

\* A store that evicts the highest slot it held.
highest_slot_of(storage) ==
    IF DOMAIN storage = {} THEN 0
    ELSE CHOOSE slot \in DOMAIN storage : \A other \in DOMAIN storage : slot >= other

\* block_storage.first_key_value(), or 0 for an empty map
min_slot_of(storage) ==
    IF DOMAIN storage = {} THEN 0
    ELSE CHOOSE slot \in DOMAIN storage : \A other \in DOMAIN storage : slot <= other

\* The map with key slot set to block.
Inserted(storage, slot, block) ==
    [k \in DOMAIN storage \cup {slot} |-> IF k = slot THEN block ELSE storage[k]]

\* block_storage.remove(&slot)
Removed(storage, slot) == [k \in DOMAIN storage \ {slot} |-> storage[k]]

\* store: the map it leaves behind.
store(storage, capacity, block) ==
    LET slot == block.slot
        min_slot == min_slot_of(storage)
        written == IF slot \in DOMAIN storage
                   THEN IF overwrite(block, storage[slot])
                        THEN Inserted(storage, slot, block)
                        ELSE storage
                   ELSE Inserted(storage, slot, block)
    IN  IF slot >= min_slot
        THEN IF Cardinality(DOMAIN written) > capacity
             THEN Removed(written, min_slot)
             ELSE written
        ELSE storage

InitBlocksWith(capacities) ==
    /\ block_storage = <<>>
    /\ number_of_blocks_to_store \in capacities
    /\ bs_calls = 0
    /\ bs_high = [slot \in 0..MaxBlockSlot |-> -1]
    /\ bs_last = [block |-> NoBlock, found |-> NoBlock]

\* InmemoryBlockStore::new(number_of_blocks_to_store)
InitBlocks == InitBlocksWith(0..MaxBlocksToStore)

\* A store nobody saves to.
IdleBlocks == InitBlocksWith({0})

\* save(block), which is store(block), under the write lock.
Save(block) ==
    /\ bs_calls < MaxStores
    /\ bs_calls' = bs_calls + 1
    /\ block_storage' = store(block_storage, number_of_blocks_to_store, block)
    /\ bs_last' = [block |-> block,
                   found |-> IF block.slot \in DOMAIN block_storage
                             THEN block_storage[block.slot] ELSE NoBlock]
    /\ bs_high' = [slot \in 0..MaxBlockSlot |->
                     IF slot \in DOMAIN block_storage'
                     THEN Max(bs_high[slot],
                              CommitmentOrdinal(block_storage'[slot].commitment_config))
                     ELSE bs_high[slot]]
    /\ UNCHANGED number_of_blocks_to_store
    /\ UNCHANGED notBlocks

NextBlocks == \E block \in ProducedBlocks : Save(block)

\* The commitment stored for a slot is no lower than any stored for it before.
CommitmentNeverDecreases ==
    \A slot \in DOMAIN block_storage :
        CommitmentOrdinal(block_storage[slot].commitment_config) >= bs_high[slot]

\* The last call found a block at its slot: a higher commitment replaced
\* it, an equal or lower one left it as it was.
UpgradeOrKeep ==
    bs_last.found # NoBlock =>
        /\ bs_last.block.slot \in DOMAIN block_storage
        /\ block_storage[bs_last.block.slot] =
             IF CommitmentOrdinal(bs_last.block.commitment_config)
                  > CommitmentOrdinal(bs_last.found.commitment_config)
             THEN bs_last.block ELSE bs_last.found

\* C15: whatever the store's capacity, the commitment stored for a slot
\* never decreases; a higher commitment replaces the stored block and an
\* equal or lower one leaves it unchanged.
C15_CommitmentMonotone == CommitmentNeverDecreases /\ UpgradeOrKeep

\* C35: after every store call, whatever capacity the store was created
\* with (0 included), it holds at most number_of_blocks_to_store blocks.
C35_StoredWithinCapacity ==
    Cardinality(DOMAIN block_storage) <= number_of_blocks_to_store

\* get(slot): the block stored at slot, or NoBlock for the error.
get(storage, slot) ==
    IF slot \in DOMAIN storage THEN storage[slot] ELSE NoBlock

\* The lowest of a non-empty set of slots.
LowestSlot(slots) == CHOOSE slot \in slots : \A other \in slots : slot <= other

\* What a store call did to the map: a block below the lowest stored slot
\* changed nothing; any other block can be got afterwards, nothing but the
\* lowest slot was evicted, and it was evicted if the capacity was exceeded.
StoreEffect(before, after, capacity, block) ==
    LET held == DOMAIN before \cup {block.slot}
        evicted == held \ DOMAIN after
    IN  IF DOMAIN before # {} /\ block.slot < LowestSlot(DOMAIN before)
        THEN after = before
        ELSE /\ get(after, block.slot) # NoBlock
             /\ evicted \subseteq {LowestSlot(held)}
             /\ DOMAIN after \subseteq held
             /\ Cardinality(held) > capacity => evicted # {}

\* C36 as stated: whatever the store's capacity, a block below the lowest
\* stored slot leaves the store unchanged; otherwise, when the capacity is
\* exceeded the block evicted is the one with the lowest slot, and the block
\* just stored can be got by its slot.
C36_EvictsLowestKeepsStored ==
    [][bs_calls' # bs_calls =>
         StoreEffect(block_storage, block_storage', number_of_blocks_to_store,
                     bs_last'.block)]_vars

\* C36 as amended: the same, for a store that keeps at least one block.
C36_EvictsLowestKeepsStoredWithCapacity ==
    [][(bs_calls' # bs_calls /\ number_of_blocks_to_store >= 1) =>
         StoreEffect(block_storage, block_storage', number_of_blocks_to_store,
                     bs_last'.block)]_vars

\* A store that keeps one block held a lower slot, was given the block of
\* slot 2, evicted the lower one and holds the new one.
C36_Witness ==
    /\ number_of_blocks_to_store = 1
    /\ bs_calls = 2
    /\ bs_last.block.slot = 2
    /\ bs_last.found = NoBlock
    /\ DOMAIN block_storage = {2}
    /\ get(block_storage, 2) = bs_last.block

(***************************************************************************)
(* BLOCK FILTER AND COMMITMENT                                             *)
(***************************************************************************)

\* No BlockCmd yet.
NoCmd == [cmd |-> "none", slot |-> 0]

\* create_multiplex(grpc_sources, commitment_config, block_sx) has been
\* called: current_slot is 0, nothing has been emitted, and commitment_config
\* is the one the multiplexer stamps on every block from now on.
InitFilter ==
    /\ fl_current_slot = 0
    /\ fl_emitted = [slot \in 0..MaxSlot |-> "none"]
    /\ fl_update = NotABlock
    /\ fl_commitment_config \in Commitments
    /\ fl_cmd = NoCmd

IdleFilter ==
    /\ fl_current_slot = 0
    /\ fl_emitted = [slot \in 0..MaxSlot |-> "none"]
    /\ fl_update = NotABlock
    /\ fl_commitment_config = MuxCommitment
    /\ fl_cmd = SkipMessage

\* 'main_loop: a message arrives and
\* map_filter_block_message(current_slot, message, commitment_config) gives
\* the BlockCmd.
FilterApply(update_message) ==
    /\ fl_cmd.cmd = "none"
    /\ fl_update' = update_message
    /\ fl_cmd' = map_filter_block_message(fl_current_slot, update_message,
                                          fl_commitment_config)
    /\ UNCHANGED <<fl_current_slot, fl_emitted, fl_commitment_config>>
    /\ UNCHANGED notFilter

\* 'main_loop, match block_cmd: a ForwardBlock sets current_slot and sends
\* the block; the other commands are logged.
FilterMatch ==
    /\ fl_cmd.cmd # "none"
    /\ IF fl_cmd.cmd = "ForwardBlock"
       THEN /\ fl_current_slot' = fl_cmd.block.slot
            /\ fl_emitted' = [fl_emitted EXCEPT ![fl_cmd.block.slot] =
                                 fl_cmd.block.commitment_config]
       ELSE UNCHANGED <<fl_current_slot, fl_emitted>>
    /\ fl_cmd' = NoCmd
    /\ UNCHANGED <<fl_update, fl_commitment_config>>
    /\ UNCHANGED notFilter

NextFilter ==
    \/ \E update_message \in Updates : FilterApply(update_message)
    \/ FilterMatch

ThrottleTicks == 1

\* A barrier that is left where it was.
throttle_barrier_kept(wait) == wait

\* throttle_barrier = Instant::now().add(Duration::from_millis(1000)), as the
\* time left until it; wait is the time that was left until the old one.
throttle_barrier_after_attempt(wait) == ThrottleTicks

InitSources ==
    /\ gs_pc = [s \in Sources |-> "THROTTLED"]
    /\ gs_wait = [s \in Sources |-> 0]
    /\ gs_since = [s \in Sources |-> ThrottleTicks]
    /\ gs_failed = [s \in Sources |-> FALSE]
    /\ gs_error = [s \in Sources |-> "none"]

\* Time passes.
Tick ==
    /\ gs_wait' = [s \in Sources |-> Max(gs_wait[s] - 1, 0)]
    /\ gs_since' = [s \in Sources |-> Min(gs_since[s] + 1, ThrottleTicks)]
    /\ UNCHANGED <<gs_pc, gs_failed, gs_error>>
    /\ UNCHANGED notSources

\* sleep_until(throttle_barrier) returns; the barrier is moved ahead and
\* connect_with_timeout is called.
SourceConnect(s) ==
    /\ gs_pc[s] = "THROTTLED"
    /\ gs_wait[s] = 0
    /\ gs_pc' = [gs_pc EXCEPT ![s] = "CONNECTING"]
    /\ gs_wait' = [gs_wait EXCEPT ![s] = throttle_barrier_after_attempt(gs_wait[s])]
    /\ gs_since' = [gs_since EXCEPT ![s] = 0]
    /\ gs_error' = [gs_error EXCEPT ![s] = "none"]
    /\ UNCHANGED gs_failed
    /\ UNCHANGED notSources

\* The errors connect_with_timeout, subscribe_once and the stream can give:
\* a transient one, and the two the server gives for a request it will never
\* accept.
SourceErrors == {"unavailable", "unauthenticated", "invalid_argument"}

\* Every arm that handles an error is `warn!(..); continue 'main_loop`: the
\* source is back at the head of 'main_loop whatever the error was ("none"
\* for a stream that ended without one).
BackToThrottled(s, error) ==
    /\ gs_pc' = [gs_pc EXCEPT ![s] = "THROTTLED"]
    /\ gs_error' = [gs_error EXCEPT ![s] = error]
    /\ gs_failed' = [gs_failed EXCEPT ![s] = TRUE]
    /\ UNCHANGED <<gs_wait, gs_since>>
    /\ UNCHANGED notSources

\* connect_with_timeout returns: Ok goes on to subscribe_once, Err continues
\* 'main_loop.
SourceConnected(s, connected) ==
    /\ gs_pc[s] = "CONNECTING"
    /\ IF connected
       THEN /\ gs_pc' = [gs_pc EXCEPT ![s] = "SUBSCRIBING"]
            /\ gs_failed' = [gs_failed EXCEPT ![s] = FALSE]
            /\ UNCHANGED <<gs_wait, gs_since, gs_error>>
            /\ UNCHANGED notSources
       ELSE \E error \in SourceErrors : BackToThrottled(s, error)

\* subscribe_once returns: Ok goes on to the stream, Err continues 'main_loop.
SourceSubscribed(s, subscribed) ==
    /\ gs_pc[s] = "SUBSCRIBING"
    /\ IF subscribed
       THEN /\ gs_pc' = [gs_pc EXCEPT ![s] = "STREAMING"]
            /\ UNCHANGED <<gs_wait, gs_since, gs_failed, gs_error>>
            /\ UNCHANGED notSources
       ELSE \E error \in SourceErrors : BackToThrottled(s, error)

\* The stream yields an error, or ends: either way 'main_loop goes round.
\* (A message it yields leaves the source streaming.)
SourceStreamOver(s, ended) ==
    /\ gs_pc[s] = "STREAMING"
    /\ IF ended
       THEN BackToThrottled(s, "none")
       ELSE \E error \in SourceErrors : BackToThrottled(s, error)

\* The steps of source s.
SourceStep(s) ==
    \/ SourceConnect(s)
    \/ \E connected \in BOOLEAN : SourceConnected(s, connected)
    \/ \E subscribed \in BOOLEAN : SourceSubscribed(s, subscribed)
    \/ \E ended \in BOOLEAN : SourceStreamOver(s, ended)

\* No source is running.
IdleSources == InitSources

NextSources == Tick \/ \E s \in Sources : SourceStep(s)

\* C16: the reconnect loop of a source has no terminal state: once back in
\* the throttled state, after a connect failure, a subscribe failure, a
\* stream error or the stream's end, it does not stay there for ever, and
\* it leaves it only by attempting to connect again; and no attempt begins
\* before the throttle interval since the last one is over.
C16_ReconnectsAfterThrottle ==
    /\ \A s \in Sources : []<>(gs_pc[s] # "THROTTLED")
    /\ [][\A s \in Sources :
            gs_pc[s] = "THROTTLED" => gs_pc'[s] \in {"THROTTLED", "CONNECTING"}]_vars
    /\ [][\A s \in Sources :
            (gs_pc[s] = "THROTTLED" /\ gs_pc'[s] = "CONNECTING" /\ gs_failed[s])
                => gs_since[s] >= ThrottleTicks]_vars

\* A source is connecting again after a failure.
C16_Witness ==
    \E s \in Sources :
        /\ gs_pc[s] = "CONNECTING"
        /\ gs_failed[s]

\* The errors the spec takes to be final.
NonRetryableErrors == {"unauthenticated", "invalid_argument"}

\* C33: an error of a source is retried, unless it is "unauthenticated" or
\* "invalid argument": after one of these the source's loop has ended and
\* the source is not waiting to connect again.
C33_OnlyFatalErrorsTerminate ==
    \A s \in Sources :
        gs_error[s] \in NonRetryableErrors => gs_pc[s] # "THROTTLED"

(***************************************************************************)
(* MULTIPLEXER OVER RECONNECTING SOURCES                                   *)
(* (cluster-endpoints/examples/grpc_using_streams.rs, create_multiplex)    *)
(***************************************************************************)

\* What a source delivers over its lifetime in an enumerated run.
DeliveryScripts ==
    {<<Block(1)>>, <<Block(2)>>}

\* The sources' deliveries in an enumerated run: green and blue deliver a
\* block each, blue the block of slot 1 and green that one or the next, and
\* toxiproxy connects and reconnects without delivering.
SourceDeliveries ==
    {sc \in [Sources -> DeliveryScripts \cup {<<>>}] :
        /\ sc["green"] # <<>>
        /\ sc["blue"] = <<Block(1)>>
        /\ sc["toxiproxy"] = <<>>}

\* A select that yields a message only once every source is streaming.
select_waits_for_all(s) == Sources

\* futures::stream::SelectAll over the sources' streams: next() yields the
\* message of any stream that has one, whatever the other streams do.
select_waits_for(s) == {s}

InitMuxSources ==
    /\ script \in SourceDeliveries
    /\ pos = [s \in Sources |-> 0]
    /\ mux_current_slot = 0
    /\ block_sx = <<>>
    /\ mux_input = <<>>
    /\ receiver_count = 1
    /\ mux_panicked = FALSE
    /\ InitSources

\* The stream of source s receives an update and yields it; the generator
\* rests there until the multiplexer takes the message.
SourceYields(s) ==
    /\ gs_pc[s] = "STREAMING"
    /\ pos[s] < Len(script[s])
    /\ gs_pc' = [gs_pc EXCEPT ![s] = "YIELDED"]
    /\ UNCHANGED <<gs_wait, gs_since, gs_failed, gs_error>>
    /\ UNCHANGED notSources

\* The multiplexer's select takes the message source s holds out.
MuxTakesFrom(s) ==
    /\ gs_pc[s] = "YIELDED"
    /\ \A t \in select_waits_for(s) : gs_pc[t] \in {"STREAMING", "YIELDED"}
    /\ MuxTakes(s)
    /\ gs_pc' = [gs_pc EXCEPT ![s] = "STREAMING"]
    /\ UNCHANGED <<gs_wait, gs_since, gs_failed, gs_error>>
    /\ UNCHANGED <<clockVars, txVars, proxyVars, quicVars, blockVars, parVars,
                   filterVars, pollVars, pgVars, exitVars, lockVars>>

\* The multiplexer and its sources, with time passing: a source sent back to
\* the head of 'main_loop connects again once its barrier is reached.
NextMuxSources ==
    \/ Tick
    \/ \E s \in Sources : SourceStep(s)
    \/ \E s \in Sources : SourceYields(s)
    \/ \E s \in Sources : MuxTakesFrom(s)

\* C26: whatever the other sources do, a message a source holds out is
\* taken by the multiplexer in the end, and a block taken from any source
\* with a slot beyond the last forwarded slot is sent on the output.
C26_OtherSourcesStillForwarded ==
    /\ \A s \in Sources : []<>(gs_pc[s] # "YIELDED")
    /\ [][\A s \in Sources :
            gs_pc[s] = "YIELDED" => gs_pc'[s] \in {"YIELDED", "STREAMING"}]_vars
    /\ [][\A s \in Sources :
            (/\ pos'[s] = pos[s] + 1
             /\ script[s][pos'[s]].kind = "block"
             /\ script[s][pos'[s]].slot > mux_current_slot)
                => block_sx' = Append(block_sx, script[s][pos'[s]].slot)]_vars

\* With one source having failed and not yet streaming again, the block
\* of the other has been sent on.
C26_Witness ==
    \E s, t \in Sources :
        /\ s # t
        /\ gs_pc[t] \in {"THROTTLED", "CONNECTING"}
        /\ gs_failed[t]
        /\ pos[t] = 0
        /\ pos[s] = Len(script[s])
        /\ block_sx # <<>>

(***************************************************************************)
(* EXIT FLAG OF THE LONG-RUNNING TASKS                                     *)
(* (services/src/tpu_utils/quic_proxy_connection_manager.rs,               *)
(*  quic-forward-proxy/src/quic_connection_utils.rs)                       *)
(***************************************************************************)

\* Transactions arriving in an enumerated run.
MaxExitTxs == 3

\* QuicConnectionParameters.connection_retry_count
connection_retry_count == 3

InitExit ==
    /\ exit_signal = FALSE
    /\ ex_pc = "check"
    /\ ex_sender = TRUE
    /\ ex_queue = 0
    /\ ex_arrived = 0
    /\ ex_txs = 0
    /\ ex_i = 1
    /\ cn_pc = "idle"
    /\ cn_tries = 0
    /\ cn_saw_exit = FALSE

\* No task is running.
IdleExit ==
    /\ exit_signal = FALSE
    /\ ex_pc = "exited"
    /\ ex_sender = FALSE
    /\ ex_queue = 0
    /\ ex_arrived = 0
    /\ ex_txs = 0
    /\ ex_i = 1
    /\ cn_pc = "none"
    /\ cn_tries = 0
    /\ cn_saw_exit = FALSE

\* The forwarding task is over: it broke out of its loop, returned from it
\* or panicked. Its receiver is dropped with it.
LoopOver == ex_pc \in {"exited", "returned", "panicked"}

\* Whoever holds the flag sets it.
SetExitSignal ==
    /\ ~exit_signal
    /\ exit_signal' = TRUE
    /\ UNCHANGED <<ex_pc, ex_sender, ex_queue, ex_arrived, ex_txs, ex_i,
                   cn_pc, cn_tries, cn_saw_exit>>
    /\ UNCHANGED notExit

\* A transaction is broadcast to the loop's receiver. (Without a receiver
\* the send fails and nothing is queued.)
ExitTxArrives ==
    /\ ex_sender
    /\ ~LoopOver
    /\ ex_arrived < MaxExitTxs
    /\ ex_arrived' = ex_arrived + 1
    /\ ex_queue' = ex_queue + 1
    /\ UNCHANGED <<exit_signal, ex_pc, ex_sender, ex_txs, ex_i, cn_pc,
                   cn_tries, cn_saw_exit>>
    /\ UNCHANGED notExit

\* The last sender of the broadcast channel is dropped.
ExitSenderDropped ==
    /\ ex_sender
    /\ ex_sender' = FALSE
    /\ UNCHANGED <<exit_signal, ex_pc, ex_queue, ex_arrived, ex_txs, ex_i,
                   cn_pc, cn_tries, cn_saw_exit>>
    /\ UNCHANGED notExit

\* read_transactions_and_broadcast, head of the loop:
\* if exit_signal.load() { break; }
LoopCheck ==
    /\ ex_pc = "check"
    /\ ex_pc' = IF exit_signal THEN "exited" ELSE "recv"
    /\ UNCHANGED <<exit_signal, ex_sender, ex_queue, ex_arrived, ex_txs, ex_i,
                   cn_pc, cn_tries, cn_saw_exit>>
    /\ UNCHANGED notExit

\* The select! has the single branch transaction_receiver.recv(): the loop
\* rests there until a transaction is there to be received, which starts the
\* batch txs, or until the channel is closed, on which the task returns.
LoopRecv ==
    /\ ex_pc = "recv"
    /\ IF ex_queue > 0
       THEN /\ ex_queue' = ex_queue - 1
            /\ ex_txs' = 1
            /\ ex_i' = 1
            /\ ex_pc' = IF number_of_transactions_per_unistream > 1
                        THEN "drain" ELSE "forward"
       ELSE /\ ~ex_sender
            /\ ex_pc' = "returned"
            /\ UNCHANGED <<ex_queue, ex_txs, ex_i>>
    /\ UNCHANGED <<exit_signal, ex_sender, ex_arrived, cn_pc, cn_tries, cn_saw_exit>>
    /\ UNCHANGED notExit

\* One turn of `for _ in 1..number_of_transactions_per_unistream`: try_recv()
\* adds a queued transaction to the batch, and is ignored if there is none.
LoopTryRecv ==
    /\ ex_pc = "drain"
    /\ IF ex_queue > 0
       THEN /\ ex_queue' = ex_queue - 1
            /\ ex_txs' = ex_txs + 1
       ELSE UNCHANGED <<ex_queue, ex_txs>>
    /\ ex_i' = ex_i + 1
    /\ ex_pc' = IF ex_i + 1 < number_of_transactions_per_unistream
                THEN "drain" ELSE "forward"
    /\ UNCHANGED <<exit_signal, ex_sender, ex_arrived, cn_pc, cn_tries, cn_saw_exit>>
    /\ UNCHANGED notExit

\* The batch is sent to the nodes with
\* send_copy_of_txs_to_quicproxy(..).await.unwrap(): the loop goes round when
\* the sends went through, and the task panics when one fails.
LoopForward(send_ok) ==
    /\ ex_pc = "forward"
    /\ ex_pc' = IF send_ok THEN "check" ELSE "panicked"
    /\ ex_txs' = 0
    /\ UNCHANGED <<exit_signal, ex_sender, ex_queue, ex_arrived, ex_i, cn_pc,
                   cn_tries, cn_saw_exit>>
    /\ UNCHANGED notExit

LoopStep ==
    \/ LoopCheck
    \/ LoopRecv
    \/ LoopTryRecv
    \/ \E send_ok \in BOOLEAN : LoopForward(send_ok)

\* connect, a turn of `for _ in 0..connection_retry_count`: make_connection
\* is called; when the turns are used up connect returns None.
ConnectBegin ==
    /\ cn_pc = "idle"
    /\ IF cn_tries < connection_retry_count
       THEN /\ cn_pc' = "connecting"
            /\ cn_tries' = cn_tries + 1
       ELSE /\ cn_pc' = "none"
            /\ UNCHANGED cn_tries
    /\ UNCHANGED <<exit_signal, ex_pc, ex_sender, ex_queue, ex_arrived, ex_txs,
                   ex_i, cn_saw_exit>>
    /\ UNCHANGED notExit

\* connect, make_connection returns: Ok returns the connection; on Err the
\* flag is looked at, and if it is set the loop is left and None returned.
ConnectEnd(connected) ==
    /\ cn_pc = "connecting"
    /\ IF connected
       THEN /\ cn_pc' = "connected"
            /\ UNCHANGED cn_saw_exit
       ELSE /\ cn_pc' = IF exit_signal THEN "none" ELSE "idle"
            /\ cn_saw_exit' = exit_signal
    /\ UNCHANGED <<exit_signal, ex_pc, ex_sender, ex_queue, ex_arrived, ex_txs,
                   ex_i, cn_tries>>
    /\ UNCHANGED notExit

ConnectStep == ConnectBegin \/ \E connected \in BOOLEAN : ConnectEnd(connected)

NextExit ==
    \/ SetExitSignal
    \/ ExitTxArrives
    \/ ExitSenderDropped
    \/ LoopStep
    \/ ConnectStep

\* C32: once the exit flag is set the forwarding loop stops, whether or not
\* another transaction arrives; and connect begins no further attempt once a
\* failed attempt has found the flag set.
C32_ExitFlagStopsTasks ==
    /\ exit_signal ~> LoopOver
    /\ [][cn_saw_exit => cn_tries' = cn_tries]_vars

(***************************************************************************)
(* PERSISTENT BLOCK STORE                                                  *)
(* (history/src/block_stores/postgres_block_store.rs)                      *)
(***************************************************************************)

\* Blocks lie in epochs 0..MaxEpoch.
MaxEpoch == 1

\* save calls per caller in an enumerated run.
MaxSaves == 2

\* save: const NUMBER_OF_TRANSACTION
NUMBER_OF_TRANSACTION == 20

SaveCallers == {"a", "b"}

\* Transaction counts of the blocks saved: no chunk, or a whole chunk and
\* one more row.
BlockTxCounts == {0, NUMBER_OF_TRANSACTION + 1}

\* What start_new_epoch creates, in its order.
EpochObjects == {"schema", "blocks", "transactions", "foreign_key"}

\* The schema and tables save writes to.
EpochTables == {"schema", "blocks", "transactions"}

\* What an INSERT names: the epoch's schema and the table of its kind.
InsertInto(kind) == {"schema", IF kind = "block" THEN "blocks" ELSE "transactions"}

SqlOutcomes == {"ok", "error"}

NoSave == [epoch |-> 0, left |-> 0]

InitPgWith(savers) ==
    /\ pg_current_epoch = 0
    /\ pg_created = [epoch \in 0..MaxEpoch |-> {}]
    /\ sv_pc = [c \in SaveCallers |-> IF c \in savers THEN "idle" ELSE "none"]
    /\ sv_block = [c \in SaveCallers |-> NoSave]
    /\ sv_current_epoch = [c \in SaveCallers |-> 0]
    /\ sv_writes = [c \in SaveCallers |-> <<>>]
    /\ sv_result = [c \in SaveCallers |-> [ret |-> "none", at |-> "none"]]
    /\ sv_calls = [c \in SaveCallers |-> 0]

\* PostgresBlockStore::new: PostgresData::default()
InitPg == InitPgWith(SaveCallers)

\* A store nobody saves to.
IdlePg == InitPgWith({})

\* A store one caller saves to, call after call.
InitPgSequential == InitPgWith({"a"})

\* save returns: Ok(()) or the error, raised at the caller's present place.
SaveReturns(c, ret) ==
    /\ sv_pc' = [sv_pc EXCEPT ![c] = "idle"]
    /\ sv_result' = [sv_result EXCEPT ![c] = [ret |-> ret, at |-> sv_pc[c]]]

\* save reads current_epoch under the read lock and works out the block's
\* epoch and schema.
SaveRead(c, epoch, txs) ==
    /\ sv_pc[c] = "idle"
    /\ sv_calls[c] < MaxSaves
    /\ sv_calls' = [sv_calls EXCEPT ![c] = @ + 1]
    /\ sv_current_epoch' = [sv_current_epoch EXCEPT ![c] = pg_current_epoch]
    /\ sv_block' = [sv_block EXCEPT ![c] = [epoch |-> epoch, left |-> txs]]
    /\ sv_writes' = [sv_writes EXCEPT ![c] = <<>>]
    /\ sv_pc' = [sv_pc EXCEPT ![c] = "epoch"]
    /\ UNCHANGED <<pg_current_epoch, pg_created, sv_result>>
    /\ UNCHANGED notPg

\* if current_epoch == 0 || current_epoch < epoch.epoch
\*     { postgres_data.write().await.current_epoch = epoch.epoch; ... }
SaveEpoch(c) ==
    /\ sv_pc[c] = "epoch"
    /\ IF sv_current_epoch[c] = 0 \/ sv_current_epoch[c] < sv_block[c].epoch
       THEN /\ pg_current_epoch' = sv_block[c].epoch
            /\ sv_pc' = [sv_pc EXCEPT ![c] = "create_schema"]
       ELSE /\ sv_pc' = [sv_pc EXCEPT ![c] = "save_transactions"]
            /\ UNCHANGED pg_current_epoch
    /\ UNCHANGED <<pg_created, sv_block, sv_current_epoch, sv_writes, sv_result, sv_calls>>
    /\ UNCHANGED notPg

\* start_new_epoch, CREATE SCHEMA: a schema already there is the error
\* DUPLICATE_SCHEMA, on which start_new_epoch returns Ok at once; any other
\* error is returned by save.
CreateSchema(c, outcome) ==
    /\ sv_pc[c] = "create_schema"
    /\ IF outcome = "error"
       THEN /\ SaveReturns(c, "err")
            /\ UNCHANGED pg_created
       ELSE /\ UNCHANGED sv_result
            /\ IF "schema" \in pg_created[sv_block[c].epoch]
               THEN /\ sv_pc' = [sv_pc EXCEPT ![c] = "save_transactions"]
                    /\ UNCHANGED pg_created
               ELSE /\ sv_pc' = [sv_pc EXCEPT ![c] = "create_blocks"]
                    /\ pg_created' = [pg_created EXCEPT ![sv_block[c].epoch] = @ \cup {"schema"}]
    /\ UNCHANGED <<pg_current_epoch, sv_block, sv_current_epoch, sv_writes, sv_calls>>
    /\ UNCHANGED notPg

\* start_new_epoch, one of the statements after CREATE SCHEMA: `?` returns
\* its error from save.
CreateObject(c, at, object, then, outcome) ==
    /\ sv_pc[c] = at
    /\ IF outcome = "error" \/ object \in pg_created[sv_block[c].epoch]
       THEN /\ SaveReturns(c, "err")
            /\ UNCHANGED pg_created
       ELSE /\ sv_pc' = [sv_pc EXCEPT ![c] = then]
            /\ pg_created' = [pg_created EXCEPT ![sv_block[c].epoch] = @ \cup {object}]
            /\ UNCHANGED sv_result
    /\ UNCHANGED <<pg_current_epoch, sv_block, sv_current_epoch, sv_writes, sv_calls>>
    /\ UNCHANGED notPg

CreateBlocksTable(c, outcome) ==
    CreateObject(c, "create_blocks", "blocks", "create_transactions", outcome)

CreateTransactionsTable(c, outcome) ==
    CreateObject(c, "create_transactions", "transactions", "foreign_key", outcome)

AddForeignKey(c, outcome) ==
    CreateObject(c, "foreign_key", "foreign_key", "save_transactions", outcome)

\* An INSERT executed by save: what it writes, how many rows, and whether
\* the epoch's schema and tables were all there when it was executed.
Write(c, kind, rows) ==
    [kind |-> kind, rows |-> rows,
     created |-> EpochTables \subseteq pg_created[sv_block[c].epoch]]

\* The answers the database can give to an INSERT: Ok only when the schema
\* and the table it names are there.
Answers(c, kind, outcome) ==
    outcome = "ok" => InsertInto(kind) \subseteq pg_created[sv_block[c].epoch]

\* transactions.chunks(NUMBER_OF_TRANSACTION): the length of the next chunk
chunk_len(left) == IF left < NUMBER_OF_TRANSACTION THEN left ELSE NUMBER_OF_TRANSACTION

\* for chunk in chunks { save_transactions(&session, &schema, chunk).await?; }
\* One turn of the loop; `?` returns the INSERT's error from save.
SaveTransactions(c, outcome) ==
    /\ sv_pc[c] = "save_transactions"
    /\ IF sv_block[c].left = 0
       THEN /\ sv_pc' = [sv_pc EXCEPT ![c] = "save_block"]
            /\ UNCHANGED <<sv_block, sv_writes, sv_result>>
       ELSE LET rows == chunk_len(sv_block[c].left)
                write == Write(c, "transactions", rows)
            IN  /\ Answers(c, "transactions", outcome)
                /\ sv_writes' = [sv_writes EXCEPT ![c] = Append(@, write)]
                /\ sv_block' = [sv_block EXCEPT ![c].left = @ - rows]
                /\ IF outcome = "error"
                   THEN SaveReturns(c, "err")
                   ELSE UNCHANGED <<sv_pc, sv_result>>
    /\ UNCHANGED <<pg_current_epoch, pg_created, sv_current_epoch, sv_calls>>
    /\ UNCHANGED notPg

\* postgres_block.save(&session, &schema).await?; Ok(())
\* save returns what the INSERT of the block row returns.
SaveBlock(c, outcome) ==
    /\ sv_pc[c] = "save_block"
    /\ Answers(c, "block", outcome)
    /\ sv_writes' = [sv_writes EXCEPT ![c] = Append(@, Write(c, "block", 1))]
    /\ SaveReturns(c, IF outcome = "error" THEN "err" ELSE "ok")
    /\ UNCHANGED <<pg_current_epoch, pg_created, sv_block, sv_current_epoch, sv_calls>>
    /\ UNCHANGED notPg

SaveStep(c) ==
    \/ \E epoch \in 0..MaxEpoch, txs \in BlockTxCounts : SaveRead(c, epoch, txs)
    \/ SaveEpoch(c)
    \/ \E outcome \in SqlOutcomes :
         \/ CreateSchema(c, outcome)
         \/ CreateBlocksTable(c, outcome)
         \/ CreateTransactionsTable(c, outcome)
         \/ AddForeignKey(c, outcome)
         \/ SaveTransactions(c, outcome)
         \/ SaveBlock(c, outcome)

NextPg == \E c \in SaveCallers : SaveStep(c)

\* C37: in every interleaving of concurrent save calls, each INSERT of
\* transactions or of the block row is executed after the schema, the blocks
\* table and the transactions table of the block's epoch were created; the
\* transactions go in chunks of at most 20 rows, all before the block row.
C37_WritesAfterSetUp ==
    \A c \in SaveCallers :
        \A i \in DOMAIN sv_writes[c] :
            /\ sv_writes[c][i].created
            /\ sv_writes[c][i].rows <= NUMBER_OF_TRANSACTION
            /\ sv_writes[c][i].kind = "block" => i = Len(sv_writes[c])

\* The places of save inside start_new_epoch.
SetUpPlaces == {"create_schema", "create_blocks", "create_transactions", "foreign_key"}

\* C38: when a statement of the epoch's set-up fails, save returns the error
\* and current_epoch is what it was when the save began, so that the next
\* save sets the epoch up again.
C38_FailedSetUpKeepsEpoch ==
    [][\A c \in SaveCallers :
         (sv_pc[c] \in SetUpPlaces /\ sv_result'[c] # sv_result[c])
            => /\ sv_result'[c].ret = "err"
               /\ pg_current_epoch' = sv_current_epoch[c]]_vars

(***************************************************************************)
(* SLOT POLLING  (core/src/jsonrpc_client.rs)                              *)
(***************************************************************************)

\* The RPC answers get_slot with a slot in 0..MaxRpcSlot.
MaxRpcSlot == 3

\* Turns of the polling loop in an enumerated run.
MaxPolls == 4

\* let mut last_slot = 0;
InitPoll ==
    /\ last_slot = 0
    /\ ps_sent = <<>>
    /\ ps_open = TRUE
    /\ ps_polls = 0
    /\ ps_pc = "polling"

\* Nobody polls.
IdlePoll ==
    /\ last_slot = 0
    /\ ps_sent = <<>>
    /\ ps_open = TRUE
    /\ ps_polls = 0
    /\ ps_pc = "none"

\* One turn of the loop with the RPC answering slot: it is sent if greater
\* than last_slot (a send to a dropped receiver returns the error), and
\* last_slot is overwritten with it.
PollSlot(slot) ==
    /\ ps_pc = "polling"
    /\ ps_polls < MaxPolls
    /\ ps_polls' = ps_polls + 1
    /\ IF slot > last_slot
       THEN IF ps_open
            THEN /\ ps_sent' = Append(ps_sent, slot)
                 /\ last_slot' = slot
                 /\ UNCHANGED ps_pc
            ELSE /\ ps_pc' = "returned"
                 /\ UNCHANGED <<ps_sent, last_slot>>
       ELSE /\ last_slot' = slot
            /\ UNCHANGED <<ps_sent, ps_pc>>
    /\ UNCHANGED ps_open
    /\ UNCHANGED notPoll

\* get_slot_with_commitment fails: `?` returns "Error getting slot".
PollFails ==
    /\ ps_pc = "polling"
    /\ ps_polls < MaxPolls
    /\ ps_polls' = ps_polls + 1
    /\ ps_pc' = "returned"
    /\ UNCHANGED <<last_slot, ps_sent, ps_open>>
    /\ UNCHANGED notPoll

\* The receiver of the slots is dropped.
SlotReceiverDropped ==
    /\ ps_pc = "polling"
    /\ ps_open
    /\ ps_open' = FALSE
    /\ UNCHANGED <<last_slot, ps_sent, ps_polls, ps_pc>>
    /\ UNCHANGED notPoll

NextPoll ==
    \/ \E slot \in 0..MaxRpcSlot : PollSlot(slot)
    \/ PollFails
    \/ SlotReceiverDropped

\* C39: whatever slots the RPC returns, going backwards included, the slots
\* poll_slots sends are strictly increasing.
C39_SentSlotsIncrease ==
    \A i \in 1..Len(ps_sent) :
        \A j \in 1..Len(ps_sent) : i < j => ps_sent[i] < ps_sent[j]

(***************************************************************************)
(* SPECIFICATIONS                                                          *)
(***************************************************************************)

Init ==
    /\ InitMux /\ InitClockShared /\ InitTx /\ InitProxy /\ InitQuic /\ InitBlocks
    /\ InitSources /\ InitParallel /\ InitFilter
    /\ InitExit
    /\ InitPg
    /\ InitPoll

Next ==
    \/ NextMux \/ NextClock \/ NextTx \/ NextProxy \/ NextQuic \/ NextBlocks
    \/ NextSources \/ NextParallel \/ NextFilter
    \/ NextExit
    \/ NextPg
    \/ NextPoll

\* The whole program: the components run side by side.
Spec == Init /\ [][Next]_vars

\* The multiplexer fed by its sources.
InitSpecMux == InitMux /\ IdleClock /\ InitTx /\ IdleProxy /\ IdleQuic /\ IdleBlocks /\ IdleSources /\ IdleParallel /\ IdleFilter
    /\ IdleExit
    /\ IdlePg
    /\ IdlePoll

SpecMux == InitSpecMux /\ [][NextMux]_vars

\* The multiplexer with an output channel whose receivers can go away.
SpecMuxOutput == InitSpecMux /\ [][NextMuxOutput]_vars

\* The slot clock driven by one task.
InitSpecClock == IdleMux /\ InitClock /\ InitTx /\ IdleProxy /\ IdleQuic /\ IdleBlocks /\ IdleSources /\ IdleParallel /\ IdleFilter
    /\ IdleExit
    /\ IdlePg
    /\ IdlePoll

SpecClock == InitSpecClock /\ [][NextClock]_vars

\* The slot clock shared by concurrent tasks.
InitSpecClockShared == IdleMux /\ InitClockShared /\ InitTx /\ IdleProxy /\ IdleQuic /\ IdleBlocks /\ IdleSources /\ IdleParallel /\ IdleFilter
    /\ IdleExit
    /\ IdlePg
    /\ IdlePoll

SpecClockShared == InitSpecClockShared /\ [][NextClock]_vars

\* The transaction batch forwarder fed by its channel.
InitSpecTx == IdleMux /\ IdleClock /\ InitTx /\ IdleProxy /\ IdleQuic /\ IdleBlocks /\ IdleSources /\ IdleParallel /\ IdleFilter
    /\ IdleExit
    /\ IdlePg
    /\ IdlePoll

SpecTx == InitSpecTx /\ [][NextTx]_vars

\* The proxy connection manager, its forwarding task and the broadcast
\* channel, with one task reconciling the connections.
InitSpecProxy == IdleMux /\ IdleClock /\ InitTx /\ InitProxy /\ IdleQuic /\ IdleBlocks /\ IdleSources /\ IdleParallel /\ IdleFilter
    /\ IdleExit
    /\ IdlePg
    /\ IdlePoll

SpecProxy == InitSpecProxy /\ [][NextProxy]_vars

\* The same with concurrent tasks reconciling the connections.
InitSpecProxyShared ==
    /\ IdleMux /\ IdleClock /\ InitTx /\ InitProxyShared /\ IdleQuic /\ IdleBlocks
    /\ IdleSources /\ IdleParallel /\ IdleFilter
    /\ IdleExit
    /\ IdlePg
    /\ IdlePoll

SpecProxyShared == InitSpecProxyShared /\ [][NextProxy]_vars

\* The sending of one batch of up to MaxBatchLen transactions to the node list.
InitSpecProxySend ==
    /\ IdleMux /\ IdleClock /\ InitTx /\ InitProxySend /\ IdleQuic /\ IdleBlocks
    /\ IdleSources /\ IdleParallel /\ IdleFilter
    /\ IdleExit
    /\ IdlePg
    /\ IdlePoll

SpecProxySend == InitSpecProxySend /\ [][NextProxySend]_vars

\* The forming of batches from a channel that holds several transactions.
InitSpecProxyDrain ==
    /\ IdleMux /\ IdleClock /\ InitTx /\ InitProxyDrain /\ IdleQuic /\ IdleBlocks
    /\ IdleSources /\ IdleParallel /\ IdleFilter
    /\ IdleExit
    /\ IdlePg
    /\ IdlePoll

SpecProxyDrain == InitSpecProxyDrain /\ [][NextProxyDrain]_vars

\* The auto-reconnecting connection with concurrent senders, and the QUIC
\* send attempt.
InitSpecQuic == IdleMux /\ IdleClock /\ InitTx /\ IdleProxy /\ InitQuic /\ IdleBlocks /\ IdleSources /\ IdleParallel /\ IdleFilter
    /\ IdleExit
    /\ IdlePg
    /\ IdlePoll

SpecQuic == InitSpecQuic /\ [][NextQuic]_vars

\* The auto-reconnecting connection alone, with every sender that can take a
\* step taking one in the end; nothing obliges the peer to stall or a
\* connection to close.
SpecQuicFair ==
    /\ InitSpecQuic
    /\ [][NextReconnect]_vars
    /\ \A s \in Senders : WF_vars(SendUniStep(s))

\* The in-memory block store.
InitSpecBlocks ==
    IdleMux /\ IdleClock /\ InitTx /\ IdleProxy /\ IdleQuic /\ InitBlocks /\ IdleSources /\ IdleParallel /\ IdleFilter
    /\ IdleExit
    /\ IdlePg
    /\ IdlePoll

SpecBlocks == InitSpecBlocks /\ [][NextBlocks]_vars

\* The reconnect loops of the sources; time passes, and a source that can
\* take a step takes one in the end.
InitSpecSources ==
    IdleMux /\ IdleClock /\ InitTx /\ IdleProxy /\ IdleQuic /\ IdleBlocks /\ InitSources /\ IdleParallel /\ IdleFilter
    /\ IdleExit
    /\ IdlePg
    /\ IdlePoll

SpecSources ==
    /\ InitSpecSources
    /\ [][NextSources]_vars
    /\ WF_vars(Tick)
    /\ \A s \in Sources : WF_vars(SourceStep(s))

\* One parallel batch send over a connection whose peer limits the streams.
InitSpecParallel ==
    /\ IdleMux /\ IdleClock /\ InitTx /\ IdleProxy /\ IdleQuic /\ IdleBlocks
    /\ IdleSources /\ InitParallel /\ IdleFilter
    /\ IdleExit
    /\ IdlePg
    /\ IdlePoll

SpecParallel == InitSpecParallel /\ [][NextParallel]_vars

\* The multiplexer's loop over the messages it takes, with the commitment of
\* what it emits for each slot.
InitSpecFilter ==
    /\ IdleMux /\ IdleClock /\ InitTx /\ IdleProxy /\ IdleQuic /\ IdleBlocks
    /\ IdleSources /\ IdleParallel /\ InitFilter
    /\ IdleExit
    /\ IdlePg
    /\ IdlePoll

SpecFilter == InitSpecFilter /\ [][NextFilter]_vars

\* The multiplexer over the sources' reconnect loops: a message held out by
\* a stream is taken in the end; nothing obliges a source to connect, to
\* stay connected or to deliver.
InitSpecMuxSources ==
    /\ InitMuxSources /\ IdleClock /\ InitTx /\ IdleProxy /\ IdleQuic /\ IdleBlocks
    /\ IdleParallel /\ IdleFilter
    /\ IdleExit
    /\ IdlePg
    /\ IdlePoll

SpecMuxSources ==
    /\ InitSpecMuxSources
    /\ [][NextMuxSources]_vars
    /\ \A s \in Sources : WF_vars(MuxTakesFrom(s))

\* The forwarding loop and connect with their exit flag: a task that can
\* take a step takes one in the end; nothing obliges a transaction to arrive
\* or the flag to be set.
InitSpecExit ==
    /\ IdleMux /\ IdleClock /\ InitTx /\ IdleProxy /\ IdleQuic /\ IdleBlocks
    /\ IdleSources /\ IdleParallel /\ IdleFilter /\ InitExit
    /\ IdlePg
    /\ IdlePoll

SpecExit ==
    /\ InitSpecExit
    /\ [][NextExit]_vars
    /\ WF_vars(LoopStep)
    /\ WF_vars(ConnectStep)

\* The persistent block store with concurrent callers of save.
InitSpecPg ==
    /\ IdleMux /\ IdleClock /\ InitTx /\ IdleProxy /\ IdleQuic /\ IdleBlocks
    /\ IdleSources /\ IdleParallel /\ IdleFilter /\ IdleExit /\ InitPg
    /\ IdlePoll

SpecPg == InitSpecPg /\ [][NextPg]_vars

\* The persistent block store with one caller of save.
InitSpecPgSequential ==
    /\ IdleMux /\ IdleClock /\ InitTx /\ IdleProxy /\ IdleQuic /\ IdleBlocks
    /\ IdleSources /\ IdleParallel /\ IdleFilter /\ IdleExit /\ InitPgSequential
    /\ IdlePoll

SpecPgSequential == InitSpecPgSequential /\ [][NextPg]_vars

\* poll_slots against an RPC that answers any slot.
InitSpecPoll ==
    /\ IdleMux /\ IdleClock /\ InitTx /\ IdleProxy /\ IdleQuic /\ IdleBlocks
    /\ IdleSources /\ IdleParallel /\ IdleFilter /\ IdleExit /\ IdlePg /\ InitPoll

SpecPoll == InitSpecPoll /\ [][NextPoll]_vars

====
